---------------------------- MODULE Spec2Model ----------------------------
(***************************************************************************)
(* A state-machine model of the nanobanana-mcp server (src/src/index.ts):  *)
(* the registry of conversation contexts, the bounded image history, the   *)
(* reference grammar ("last", "history:N", paths) and the tool handlers    *)
(* gemini_chat, gemini_generate_image, gemini_edit_image,                  *)
(* get_image_history, clear_conversation and set_aspect_ratio.             *)
(*                                                                         *)
(* JavaScript runs one handler at a time and only yields at an `await`.    *)
(* Every action below is the code that runs between two awaits of one      *)
(* tool call; a call in flight is a slot of `calls` with its position pc.  *)
(* Strings that the code parses (references, paths) are sequences of       *)
(* one-character strings, so that the regular expressions and path         *)
(* functions are computed and not assumed.                                 *)
(***************************************************************************)
EXTENDS Integers, Sequences, FiniteSets, TLC

(***************************************************************************)
(* JavaScript values.                                                      *)
(***************************************************************************)
Undefined == "<undefined>"
Null == "<null>"

\* `v && ...`: the truthiness of an argument that is undefined, null or a string.
Truthy(v) == v \notin {Undefined, Null, ""}

\* `a ?? b`
Coalesce(a, b) == IF a \in {Undefined, Null} THEN b ELSE a

\* Array.prototype.includes
Includes(arr, v) == \E i \in 1..Len(arr) : arr[i] = v

VALID_ASPECT_RATIOS ==
  <<"1:1", "9:16", "16:9", "3:4", "4:3", "3:2", "2:3", "5:4", "4:5", "21:9">>

MAX_IMAGE_HISTORY == 10

(***************************************************************************)
(* Text: digits, the reference grammar, paths.                             *)
(***************************************************************************)
Digits == <<"0", "1", "2", "3", "4", "5", "6", "7", "8", "9">>

IsDigit(ch) == \E i \in 1..10 : Digits[i] = ch

DigitVal(ch) == (CHOOSE i \in 1..10 : Digits[i] = ch) - 1

\* parseInt(s, 10) of a string the pattern \d+ has matched
RECURSIVE ParseInt(_)
ParseInt(s) ==
  IF Len(s) = 0 THEN 0
  ELSE 10 * ParseInt(SubSeq(s, 1, Len(s) - 1)) + DigitVal(s[Len(s)])

\* String(n) of a non-negative integer
RECURSIVE NumToStr(_)
NumToStr(n) ==
  IF n < 10 THEN <<Digits[n + 1]>>
  ELSE NumToStr(n \div 10) \o <<Digits[(n % 10) + 1]>>

LastRef == <<"l", "a", "s", "t">>
HistoryPrefix == <<"h", "i", "s", "t", "o", "r", "y", ":">>

\* reference.match(/^history:(\d+)$/)
MatchesHistoryRef(reference) ==
  /\ Len(reference) > Len(HistoryPrefix)
  /\ SubSeq(reference, 1, Len(HistoryPrefix)) = HistoryPrefix
  /\ \A i \in (Len(HistoryPrefix) + 1)..Len(reference) : IsDigit(reference[i])

\* the capture group of the match
HistoryRefDigits(reference) ==
  SubSeq(reference, Len(HistoryPrefix) + 1, Len(reference))

(***************************************************************************)
(* Paths (node:path on POSIX, for paths without "." or ".." segments).     *)
(***************************************************************************)
\* process.cwd() and os.homedir(): fixed by the host
Cwd == <<"/", "w">>
HomeDir == <<"/", "h">>

\* path.isAbsolute
IsAbsolute(p) == Len(p) > 0 /\ p[1] = "/"

\* path.join(a, b), a absolute and b relative
JoinPath(a, b) == IF Len(b) = 0 THEN a ELSE a \o <<"/">> \o b

\* the positions of character ch in p
Positions(p, ch) == {i \in 1..Len(p) : p[i] = ch}

Max(S) == CHOOSE x \in S : \A y \in S : y <= x

\* path.basename
Basename(p) ==
  IF Positions(p, "/") = {} THEN p
  ELSE SubSeq(p, Max(Positions(p, "/")) + 1, Len(p))

\* path.parse(p).name: the basename without its last extension
ParseName(p) ==
  LET base == Basename(p)
      dots == Positions(base, ".")
  IN IF dots = {} \/ Max(dots) = 1 THEN base
     ELSE SubSeq(base, 1, Max(dots) - 1)

\* path.join(homeDir, 'Documents', 'nanobanana_generated')
GeneratedDir ==
  JoinPath(JoinPath(HomeDir, <<"D", "o", "c", "u", "m", "e", "n", "t", "s">>), 
    <<"n", "a", "n", "o", "b", "a", "n", "a", "n", "a", "_", "g", "e", "n", "e", "r", "a", "t", "e", "d">>)

UpperCase == 
  <<"A", "B", "C", "D", "E", "F", "G", "H", "I", "J", "K", "L", "M", "N", "O", "P", "Q", "R", "S", "T", "U", "V", "W", "X", "Y", "Z">>
LowerCase == 
  <<"a", "b", "c", "d", "e", "f", "g", "h", "i", "j", "k", "l", "m", "n", "o", "p", "q", "r", "s", "t", "u", "v", "w", "x", "y", "z">>

\* String.prototype.toLowerCase, one character
LowerChar(ch) ==
  IF \E i \in 1..Len(UpperCase) : UpperCase[i] = ch
  THEN LowerCase[CHOOSE i \in 1..Len(UpperCase) : UpperCase[i] = ch]
  ELSE ch

ToLowerCase(s) == [i \in 1..Len(s) |-> LowerChar(s[i])]

\* String.prototype.endsWith
EndsWith(s, suffix) ==
  /\ Len(s) >= Len(suffix)
  /\ SubSeq(s, Len(s) - Len(suffix) + 1, Len(s)) = suffix

PngExt == <<".", "p", "n", "g">>

\* s.replace(/\.[^/.]+$/, ''): drop a final extension, if the string ends in one
StripExtension(s) ==
  LET dots == Positions(s, ".")
  IN IF /\ dots # {}
        /\ Max(dots) < Len(s)
        /\ \A i \in (Max(dots) + 1)..Len(s) : s[i] # "/"
     THEN SubSeq(s, 1, Max(dots) - 1)
     ELSE s

\* the requested output path made absolute, with .png put after whatever it
\* ends in
NormalizeOutputPath_Append(output_path) ==
  LET abs == IF IsAbsolute(output_path) THEN output_path
             ELSE JoinPath(Cwd, output_path)
  IN IF EndsWith(ToLowerCase(abs), PngExt) THEN abs
     ELSE abs \o PngExt

\* the requested output path made absolute, its extension forced to .png
NormalizeOutputPath(output_path) ==
  LET abs == IF IsAbsolute(output_path) THEN output_path
             ELSE JoinPath(Cwd, output_path)
  IN IF EndsWith(ToLowerCase(abs), PngExt) THEN abs
     ELSE StripExtension(abs) \o PngExt

\* `generated_${Date.now()}.png` in the default directory
GeneratedPath(t) ==
  JoinPath(GeneratedDir, <<"g", "e", "n", "e", "r", "a", "t", "e", "d", "_">> \o NumToStr(t) \o PngExt)

\* `${origName}_edited_${Date.now()}.png` in the default directory
EditedPath(origName, t) ==
  JoinPath(GeneratedDir, origName \o <<"_", "e", "d", "i", "t", "e", "d", "_">> \o NumToStr(t) \o PngExt)

\* `history_${historyImage.id}`
HistoryName(id) == <<"h", "i", "s", "t", "o", "r", "y", "_">> \o NumToStr(id)

(***************************************************************************)
(* The data model.                                                         *)
(***************************************************************************)
\* a new context that comes with a default ratio
NewContext_DefaultSquare ==
  [history |-> <<>>, imageHistory |-> <<>>, aspectRatio |-> "1:1"]

\* `null` where an ImageHistoryEntry is expected
NullEntry ==
  [id |-> 0, filePath |-> <<>>, base64Data |-> Null, mimeType |-> Null,
   prompt |-> Null, timestamp |-> 0, type |-> Null]

\* the context getOrCreateContext stores for a new conversation id
NewContext == [history |-> <<>>, imageHistory |-> <<>>, aspectRatio |-> Null]

\* AddImageToHistory without the eviction
AddImageToHistory_NoEvict(context, entry) ==
  [context EXCEPT !.imageHistory = Append(@, entry)]

\* AddImageToHistory with pop() for shift(): the newest entry is the one dropped
AddImageToHistory_EvictNewest(context, entry) ==
  LET pushed == Append(context.imageHistory, entry)
  IN [context EXCEPT !.imageHistory =
        IF Len(pushed) > MAX_IMAGE_HISTORY
        THEN SubSeq(pushed, 1, Len(pushed) - 1) ELSE pushed]

\* AddImageToHistory with unshift() for push(): the newest entry comes first
AddImageToHistory_Unshift(context, entry) ==
  LET pushed == <<entry>> \o context.imageHistory
  IN [context EXCEPT !.imageHistory =
        IF Len(pushed) > MAX_IMAGE_HISTORY
        THEN SubSeq(pushed, 1, Len(pushed) - 1) ELSE pushed]

\* AddImageToHistory starting the transcript of the context afresh
AddImageToHistory_DropsTranscript(context, entry) ==
  LET pushed == Append(context.imageHistory, entry)
  IN [context EXCEPT !.imageHistory =
        IF Len(pushed) > MAX_IMAGE_HISTORY THEN Tail(pushed) ELSE pushed,
                     !.history = <<>>]

\* context.imageHistory.push(entry), then shift() when over the maximum
AddImageToHistory(context, entry) ==
  LET pushed == Append(context.imageHistory, entry)
  IN [context EXCEPT !.imageHistory =
        IF Len(pushed) > MAX_IMAGE_HISTORY THEN Tail(pushed) ELSE pushed]

\* EntryAt taking the index as one-based
EntryAt_OneBased(imageHistory, index) ==
  IF index \in 1..Len(imageHistory) THEN imageHistory[index] ELSE NullEntry

\* context.imageHistory[index] ?? null, index zero-based
EntryAt(imageHistory, index) ==
  IF index + 1 \in 1..Len(imageHistory) THEN imageHistory[index + 1] ELSE NullEntry

\* getImageFromHistory answering "last" with the oldest entry
GetImageFromHistory_LastIsOldest(context, reference) ==
  IF Len(context.imageHistory) = 0 THEN NullEntry
  ELSE IF reference = LastRef
    THEN context.imageHistory[1]
  ELSE IF MatchesHistoryRef(reference)
    THEN EntryAt(context.imageHistory, ParseInt(HistoryRefDigits(reference)))
  ELSE NullEntry

\* getImageFromHistory(context, reference)
GetImageFromHistory(context, reference) ==
  IF Len(context.imageHistory) = 0 THEN NullEntry
  ELSE IF reference = LastRef
    THEN context.imageHistory[Len(context.imageHistory)]
  ELSE IF MatchesHistoryRef(reference)
    THEN EntryAt(context.imageHistory, ParseInt(HistoryRefDigits(reference)))
  ELSE NullEntry

\* the validation reduced to a truthiness test
IsValidRatio_AnyString(aspect_ratio) == Truthy(aspect_ratio)

\* VALID_ASPECT_RATIOS.includes(aspect_ratio)
IsValidRatio(aspect_ratio) == Includes(VALID_ASPECT_RATIOS, aspect_ratio)

\* generate/edit: `aspect_ratio && !VALID_ASPECT_RATIOS.includes(aspect_ratio)`
RejectsRatio(aspect_ratio) == Truthy(aspect_ratio) /\ ~IsValidRatio(aspect_ratio)

\* generate/edit: `aspect_ratio ?? context.aspectRatio`
EffectiveAspectRatio(aspect_ratio, context) ==
  Coalesce(aspect_ratio, context.aspectRatio)

(***************************************************************************)
(* The state.                                                              *)
(*   conversations  the Map: conversation id -> context object (0: none)   *)
(*   heap           the context objects that are still referenced          *)
(*   appended       per object, how many images were added to it (the      *)
(*                  source of the unique ids of generateImageId)           *)
(*   calls          the tool calls in flight, one slot each                *)
(*   files          the file system: path -> content                       *)
(*   now            Date.now()                                             *)
(*   ret            what the last step did and returned                    *)
(*   referenced     per id: an operation named it since its last clear     *)
(*   established    per id: a chat, generate, edit or valid                *)
(*                  set_aspect_ratio named it since its last clear         *)
(*   clearedRatio   per id: the aspectRatio its last clear discarded       *)
(***************************************************************************)
VARIABLES conversations, heap, appended, calls, files, now, ret,
          referenced, established, clearedRatio

vars == <<conversations, heap, appended, calls, files, now, ret,
          referenced, established, clearedRatio>>

\* the conversation ids and call slots of the largest specification
AllKeys == {"default", "s"}
AllCalls == {1, 2}

NoObj == 0
ObjIds == 1..(Cardinality(AllKeys) + Cardinality(AllCalls))

\* `conversation_id = "default"` in the destructuring of the arguments
KeyOf(conversation_id) ==
  IF conversation_id = Undefined THEN "default" ELSE conversation_id

IdleCall ==
  [pc |-> "idle", tool |-> "", key |-> "", ctx |-> NoObj, ratio |-> Null,
   prompt |-> "", image_path |-> <<>>, output_path |-> <<>>,
   subject |-> NullEntry, imageBase64 |-> Null, resolvedPath |-> <<>>,
   imageData |-> Null, invocations |-> 0,
   use_image_history |-> FALSE, reference_images |-> <<>>, refIndex |-> 0,
   parts |-> <<>>, failed |-> <<>>, supplied |-> <<>>, textResponse |-> <<>>]

\* the objects a state still references: from the Map or from a call in flight
Reachable(conv, cls) ==
  {conv[k] : k \in DOMAIN conv} \cup {cls[c].ctx : c \in DOMAIN cls}

\* garbage collection: an object nothing references is gone
Collect(hp, conv, cls) ==
  [o \in (DOMAIN hp) \cap Reachable(conv, cls) |-> hp[o]]

\* getOrCreateContext without the `has` test: a new context on every call
GetOrCreateContext_AlwaysNew(conv, hp, conversationId) ==
  LET o == CHOOSE x \in ObjIds \ DOMAIN hp : \A y \in ObjIds \ DOMAIN hp : x <= y
  IN [conv |-> [conv EXCEPT ![conversationId] = o],
      heap |-> [x \in DOMAIN hp \cup {o} |-> IF x = o THEN NewContext ELSE hp[x]],
      obj |-> o]

\* getOrCreateContext without the `set`: the new context is never stored
GetOrCreateContext_NotStored(conv, hp, conversationId) ==
  IF conv[conversationId] = NoObj
  THEN LET o == CHOOSE x \in ObjIds \ DOMAIN hp : \A y \in ObjIds \ DOMAIN hp : x <= y
       IN [conv |-> conv,
           heap |-> [x \in DOMAIN hp \cup {o} |-> IF x = o THEN NewContext ELSE hp[x]],
           obj |-> o]
  ELSE [conv |-> conv, heap |-> hp, obj |-> conv[conversationId]]

\* getOrCreateContext(conversationId): the Map and heap after it, and the object
\* getOrCreateContext handing an id without a context the context of another id
GetOrCreateContext_Shared(conv, hp, conversationId) ==
  IF conv[conversationId] = NoObj /\ \E k \in DOMAIN conv : conv[k] # NoObj
  THEN LET o == conv[CHOOSE k \in DOMAIN conv : conv[k] # NoObj]
       IN [conv |-> [conv EXCEPT ![conversationId] = o], heap |-> hp, obj |-> o]
  ELSE IF conv[conversationId] = NoObj
  THEN LET o == CHOOSE x \in ObjIds \ DOMAIN hp :
                  \A y \in ObjIds \ DOMAIN hp : x <= y
       IN [conv |-> [conv EXCEPT ![conversationId] = o],
           heap |-> [x \in DOMAIN hp \cup {o} |-> IF x = o THEN NewContext ELSE hp[x]],
           obj |-> o]
  ELSE [conv |-> conv, heap |-> hp, obj |-> conv[conversationId]]

GetOrCreateContext(conv, hp, conversationId) ==
  IF conv[conversationId] = NoObj
  THEN LET o == CHOOSE x \in ObjIds \ DOMAIN hp :
                  \A y \in ObjIds \ DOMAIN hp : x <= y
       IN [conv |-> [conv EXCEPT ![conversationId] = o],
           heap |-> [x \in DOMAIN hp \cup {o} |-> IF x = o THEN NewContext ELSE hp[x]],
           obj |-> o]
  ELSE [conv |-> conv, heap |-> hp, obj |-> conv[conversationId]]

\* the step's report: nothing invoked, nothing written, nothing returned
\* no HTTP response: the step is not the return of a fetch
NoResponse == [ok |-> TRUE, status |-> "", json |-> "none", text |-> <<>>, chunks |-> <<>>]

NoEvent ==
  [tool |-> "", key |-> "", step |-> "", returned |-> FALSE, outcome |-> "",
   isError |-> FALSE,
   arg |-> Undefined, ref |-> <<>>, found |-> NullEntry,
   added |-> NullEntry, invoked |-> FALSE, ratio |-> Null, wrote |-> <<>>,
   model |-> Null, parts |-> <<>>, warnings |-> <<>>, listing |-> <<>>,
   hadContext |-> FALSE, requested |-> <<>>, replayed |-> <<>>,
   text |-> <<>>, response |-> NoResponse]

\* the files the host starts with: one user image in the working directory and
\* one image of an earlier run in the default output directory
UserImage == <<"a", ".", "p", "n", "g">>
OldImage == <<"o", ".", "p", "n", "g">>

\* a file system that holds the given files and the directories they are in
HostFiles(paths) ==
  [p \in paths \cup UNION {{SubSeq(q, 1, i - 1) : i \in {j \in 2..Len(q) : q[j] = "/"}}
                           : q \in paths} \cup {<<"/">>} |->
     IF p \in paths THEN "user-bytes" ELSE "<dir>"]

InitialFiles == HostFiles({JoinPath(Cwd, UserImage), JoinPath(GeneratedDir, OldImage)})

\* an image in a directory below the working directory
NestedImage == <<"d", "/", "a", ".", "p", "n", "g">>

\* the file system of a host that has saved no image yet
FreshFiles ==
  HostFiles({JoinPath(Cwd, UserImage), JoinPath(Cwd, NestedImage),
             HomeDir \o <<"/", "f">>})

Init ==
  /\ conversations = [k \in AllKeys |-> NoObj]
  /\ heap = [o \in {} |-> NewContext]
  /\ appended = [o \in ObjIds |-> 0]
  /\ calls = [c \in AllCalls |-> IdleCall]
  /\ files = InitialFiles
  /\ now = 0
  /\ ret = NoEvent
  /\ referenced = [k \in AllKeys |-> FALSE]
  /\ established = [k \in AllKeys |-> FALSE]
  /\ clearedRatio = [k \in AllKeys |-> Null]

(***************************************************************************)
(* Request parts and references.                                           *)
(***************************************************************************)
IMAGE_MODEL == "gemini-2.5-flash-image"

\* the model gemini_chat asks genAI for
CHAT_MODEL == "gemini-2.5-flash-image"

MAX_REFERENCE_IMAGES == 3

\* `.slice(0, 10)` of the images of a chat and the reference images of an edit
ImageRefLimit == 10

\* a part { text }: the text as the sequence of the fragments it is built from
TextPart(fragments) ==
  [kind |-> "text", text |-> fragments, mimeType |-> Null, data |-> Null]

\* a part { inlineData: { mimeType, data } }
InlineData(mimeType, data) ==
  [kind |-> "inlineData", text |-> <<>>, mimeType |-> mimeType, data |-> data]

\* the sentence generate appends to the prompt when history images go along
ConsistencySuffix == "IMPORTANT: Maintain visual consistency"

\* the text the edit request is wrapped in
EditPrefix == "Based on this image, generate a new edited version"
EditSuffix == "IMPORTANT: Create a completely new image"

\* arr.slice(0, n)
SliceFirst(arr, n) == SubSeq(arr, 1, IF Len(arr) < n THEN Len(arr) ELSE n)

\* arr.slice(-n)
SliceLast(arr, n) == SubSeq(arr, IF Len(arr) < n THEN 1 ELSE Len(arr) - n + 1, Len(arr))

\* a slice that drops nothing
SliceButLast_All(arr) == arr

\* arr.slice(0, -1)
SliceButLast(arr) == SubSeq(arr, 1, Len(arr) - 1)

\* a directory in the file system
Dir == "<dir>"

\* path.dirname of an absolute path
Dirname(p) ==
  IF Max(Positions(p, "/")) = 1 THEN <<"/">>
  ELSE SubSeq(p, 1, Max(Positions(p, "/")) - 1)

\* the directory of a path and the directories above it
Ancestors(p) ==
  {SubSeq(p, 1, i - 1) : i \in Positions(p, "/") \ {1}} \cup {<<"/">>}

\* fs.mkdir(dir, { recursive: true })
Mkdir(fs, dir) ==
  [p \in DOMAIN fs \cup Ancestors(dir \o <<"/">>) |->
     IF p \in DOMAIN fs THEN fs[p] ELSE Dir]

\* the image_path of an edit as a file: the path itself, made absolute
ResolvedImagePath(image_path) ==
  IF IsAbsolute(image_path) THEN image_path ELSE JoinPath(Cwd, image_path)

\* the second place an image_path is looked for: its basename in the default directory
AlternativePath(image_path) == JoinPath(GeneratedDir, Basename(image_path))

\* a reference loop that puts an empty image part in the place of a file it
\* cannot read, and notes no failure
LoadReference_Placeholder(tool, imgRef, fs) ==
  LET first == ResolvedImagePath(imgRef)
      alt == AlternativePath(imgRef)
      path == IF tool = "gemini_generate_image" \/ first \in DOMAIN fs THEN first
              ELSE alt
  IN [ok |-> TRUE,
      part |-> InlineData("image/png",
                          IF path \in DOMAIN fs /\ fs[path] # Dir THEN fs[path] ELSE ""),
      failure |-> [path |-> imgRef, reason |-> ""]]

\* a reference image read from the file system.  generate reads the path made
\* absolute and nothing else; chat and edit test the path with fs.access, then
\* its basename in the default directory, and read the one that exists.  A
\* path that is not there fails with ENOENT, a directory with EISDIR.
LoadReference(tool, imgRef, fs) ==
  LET first == ResolvedImagePath(imgRef)
      alt == AlternativePath(imgRef)
      path == IF tool = "gemini_generate_image" \/ first \in DOMAIN fs THEN first
              ELSE alt
  IN IF path \notin DOMAIN fs
     THEN [ok |-> FALSE, part |-> InlineData(Null, Null),
           failure |-> [path |-> imgRef, reason |-> "ENOENT"]]
     ELSE IF fs[path] = Dir
     THEN [ok |-> FALSE, part |-> InlineData(Null, Null),
           failure |-> [path |-> imgRef, reason |-> "EISDIR"]]
     ELSE [ok |-> TRUE, part |-> InlineData("image/png", fs[path]),
           failure |-> [path |-> imgRef, reason |-> ""]]

\* a loop over the references that looks every reference up in the history,
\* whatever the tool
HistoryHit_AnyTool(tool, context, imgRef) ==
  GetImageFromHistory(context, imgRef) # NullEntry

\* whether the loop over the references looks reference imgRef up in the
\* history before it reads a file: chat and edit do, generate does not
HistoryHit(tool, context, imgRef) ==
  /\ tool # "gemini_generate_image"
  /\ GetImageFromHistory(context, imgRef) # NullEntry

\* the loop over the references from position i on, up to its next await: a
\* reference found in the history adds its part at once; a reference that
\* is read from the file system suspends the call (awaiting), at the end of
\* the references the loop is over
RECURSIVE RunReferences(_, _, _, _, _, _)
RunReferences(tool, context, refs, i, parts, failed) ==
  IF i > Len(refs)
  THEN [refIndex |-> i, parts |-> parts, failed |-> failed, awaiting |-> FALSE]
  ELSE IF HistoryHit(tool, context, refs[i])
  THEN LET img == GetImageFromHistory(context, refs[i])
       IN RunReferences(tool, context, refs, i + 1,
                        Append(parts, InlineData(img.mimeType, img.base64Data)), failed)
  ELSE [refIndex |-> i, parts |-> parts, failed |-> failed, awaiting |-> TRUE]

\* the parts of a generate request with the history images put first
GenerateParts_HistoryFirst(context, use_image_history, prompt, refParts) ==
  LET withHistory == use_image_history /\ Len(context.imageHistory) > 0
      recentImages == SliceLast(context.imageHistory, MAX_REFERENCE_IMAGES)
  IN (IF withHistory
      THEN [i \in 1..Len(recentImages) |->
              InlineData(recentImages[i].mimeType, recentImages[i].base64Data)]
      ELSE <<>>)
     \o refParts
     \o <<TextPart(IF withHistory THEN <<prompt, ConsistencySuffix>> ELSE <<prompt>>)>>

\* the parts of a generate request: the reference images, the last
\* MAX_REFERENCE_IMAGES images of the history when use_image_history is set,
\* then the prompt
GenerateParts(context, use_image_history, prompt, refParts) ==
  LET withHistory == use_image_history /\ Len(context.imageHistory) > 0
      recentImages == SliceLast(context.imageHistory, MAX_REFERENCE_IMAGES)
  IN refParts
     \o (IF withHistory
         THEN [i \in 1..Len(recentImages) |->
                 InlineData(recentImages[i].mimeType, recentImages[i].base64Data)]
         ELSE <<>>)
     \o <<TextPart(IF withHistory THEN <<prompt, ConsistencySuffix>> ELSE <<prompt>>)>>

\* the parts of an edit request with the image that is edited put first
EditParts_SubjectFirst(edit_prompt, imageBase64, refParts) ==
  <<InlineData("image/png", imageBase64)>>
  \o refParts \o <<TextPart(<<EditPrefix, edit_prompt, EditSuffix>>)>>

\* the parts of an edit request: the reference images, the editing prompt,
\* then the image that is edited
EditParts(edit_prompt, imageBase64, refParts) ==
  refParts \o <<TextPart(<<EditPrefix, edit_prompt, EditSuffix>>),
               InlineData("image/png", imageBase64)>>

(***************************************************************************)
(* Steps.  Commit installs the Map, heap and calls a step leaves behind    *)
(* and lets go of the objects nothing references any more.                 *)
(***************************************************************************)
Commit(conv, hp, app, cls) ==
  /\ conversations' = conv
  /\ heap' = Collect(hp, conv, cls)
  /\ appended' = [o \in ObjIds |-> IF o \in DOMAIN Collect(hp, conv, cls) THEN app[o] ELSE 0]
  /\ calls' = cls

\* an operation named conversation id k; creating tells whether it is one of
\* those that call getOrCreateContext
Touch(k, creating) ==
  /\ referenced' = [referenced EXCEPT ![k] = TRUE]
  /\ established' = [established EXCEPT ![k] = @ \/ creating]
  /\ UNCHANGED clearedRatio

\* a later step of a call in flight names no conversation id anew
NoTouch == UNCHANGED <<referenced, established, clearedRatio>>

\* Date.now() advances
Tick ==
  /\ now' = now + 1
  /\ UNCHANGED <<conversations, heap, appended, calls, files>>
  /\ NoTouch
  /\ ret' = [NoEvent EXCEPT !.step = "tick"]

\* case "set_aspect_ratio"
SetAspectRatio(aspect_ratio, conversation_id) ==
  LET k == KeyOf(conversation_id)
      g == GetOrCreateContext(conversations, heap, k)
  IN IF ~IsValidRatio(aspect_ratio)
     THEN /\ ret' = [NoEvent EXCEPT !.tool = "set_aspect_ratio", !.key = k,
                       !.step = "call",
                       !.returned = TRUE, !.outcome = "InvalidArgument",
                       !.isError = TRUE, !.arg = aspect_ratio]
          /\ Touch(k, FALSE)
          /\ UNCHANGED <<conversations, heap, appended, calls, files, now>>
     ELSE /\ Commit(g.conv, [g.heap EXCEPT ![g.obj].aspectRatio = aspect_ratio],
                    appended, calls)
          /\ ret' = [NoEvent EXCEPT !.tool = "set_aspect_ratio", !.key = k,
                       !.step = "call",
                       !.returned = TRUE, !.outcome = "ok", !.arg = aspect_ratio]
          /\ Touch(k, TRUE)
          /\ UNCHANGED <<files, now>>

\* clear_conversation emptying the two histories in place: the context stays,
\* and its aspect ratio with it
ClearConversation_KeepsRatio(conversation_id) ==
  /\ Commit(conversations,
            [o \in DOMAIN heap |->
               IF o = conversations[conversation_id]
               THEN [heap[o] EXCEPT !.history = <<>>, !.imageHistory = <<>>]
               ELSE heap[o]],
            appended, calls)
  /\ ret' = [NoEvent EXCEPT !.tool = "clear_conversation", !.key = conversation_id,
               !.step = "call", !.returned = TRUE, !.outcome = "ok",
               !.hadContext = (conversations[conversation_id] # NoObj)]
  /\ referenced' = [referenced EXCEPT ![conversation_id] = FALSE]
  /\ established' = [established EXCEPT ![conversation_id] = FALSE]
  /\ clearedRatio' = [clearedRatio EXCEPT ![conversation_id] =
                        IF conversations[conversation_id] = NoObj THEN Null
                        ELSE heap[conversations[conversation_id]].aspectRatio]
  /\ UNCHANGED <<files, now>>

\* clear_conversation refusing an id that has no context
ClearConversation_AbsentIsError(conversation_id) ==
  /\ Commit([conversations EXCEPT ![conversation_id] = NoObj], heap, appended, calls)
  /\ ret' = [NoEvent EXCEPT !.tool = "clear_conversation", !.key = conversation_id,
               !.step = "call", !.returned = TRUE,
               !.outcome = IF conversations[conversation_id] = NoObj
                           THEN "NotFound" ELSE "ok",
               !.isError = (conversations[conversation_id] = NoObj),
               !.hadContext = (conversations[conversation_id] # NoObj)]
  /\ referenced' = [referenced EXCEPT ![conversation_id] = FALSE]
  /\ established' = [established EXCEPT ![conversation_id] = FALSE]
  /\ clearedRatio' = [clearedRatio EXCEPT ![conversation_id] =
                        IF conversations[conversation_id] = NoObj THEN Null
                        ELSE heap[conversations[conversation_id]].aspectRatio]
  /\ UNCHANGED <<files, now>>

\* case "clear_conversation"
\* clear_conversation emptying the context in place, where the calls in flight
\* still find it
ClearConversation_EmptiesInPlace(conversation_id) ==
  /\ Commit(conversations,
            [o \in DOMAIN heap |->
               IF o = conversations[conversation_id] THEN NewContext ELSE heap[o]],
            appended, calls)
  /\ ret' = [NoEvent EXCEPT !.tool = "clear_conversation", !.key = conversation_id,
               !.step = "call", !.returned = TRUE, !.outcome = "ok",
               !.hadContext = (conversations[conversation_id] # NoObj)]
  /\ referenced' = [referenced EXCEPT ![conversation_id] = FALSE]
  /\ established' = [established EXCEPT ![conversation_id] = FALSE]
  /\ clearedRatio' = [clearedRatio EXCEPT ![conversation_id] =
                        IF conversations[conversation_id] = NoObj THEN Null
                        ELSE heap[conversations[conversation_id]].aspectRatio]
  /\ UNCHANGED <<files, now>>

ClearConversation(conversation_id) ==
  /\ Commit([conversations EXCEPT ![conversation_id] = NoObj], heap, appended, calls)
  /\ ret' = [NoEvent EXCEPT !.tool = "clear_conversation", !.key = conversation_id,
               !.step = "call", !.returned = TRUE, !.outcome = "ok",
               !.hadContext = (conversations[conversation_id] # NoObj)]
  /\ referenced' = [referenced EXCEPT ![conversation_id] = FALSE]
  /\ established' = [established EXCEPT ![conversation_id] = FALSE]
  /\ clearedRatio' = [clearedRatio EXCEPT ![conversation_id] =
                        IF conversations[conversation_id] = NoObj THEN Null
                        ELSE heap[conversations[conversation_id]].aspectRatio]
  /\ UNCHANGED <<files, now>>

\* new Date(timestamp).toISOString(), for a timestamp within the first second
\* of the epoch
ToISOString(timestamp) ==
  <<"1970-01-01T00:00:00.", Digits[(timestamp \div 100) + 1],
    Digits[((timestamp \div 10) % 10) + 1], Digits[(timestamp % 10) + 1], "Z">>

\* historyInfo with positions counted from one
HistoryInfo_OneBased(imageHistory) ==
  [i \in 1..Len(imageHistory) |->
     [index |-> i,
      reference |-> HistoryPrefix \o NumToStr(i),
      id |-> imageHistory[i].id,
      filePath |-> imageHistory[i].filePath,
      prompt |-> imageHistory[i].prompt,
      type |-> imageHistory[i].type,
      timestamp |-> ToISOString(imageHistory[i].timestamp)]]

\* historyInfo: the history mapped to what get_image_history reports
HistoryInfo(imageHistory) ==
  [i \in 1..Len(imageHistory) |->
     [index |-> i - 1,
      reference |-> HistoryPrefix \o NumToStr(i - 1),
      id |-> imageHistory[i].id,
      filePath |-> imageHistory[i].filePath,
      prompt |-> imageHistory[i].prompt,
      type |-> imageHistory[i].type,
      timestamp |-> ToISOString(imageHistory[i].timestamp)]]

\* case "get_image_history": conversations.get, never getOrCreateContext
GetImageHistory(conversation_id) ==
  LET o == conversations[conversation_id]
      empty == o = NoObj \/ Len(heap[o].imageHistory) = 0
  IN /\ ret' = [NoEvent EXCEPT !.tool = "get_image_history", !.key = conversation_id,
                  !.step = "call", !.returned = TRUE,
                  !.outcome = IF empty THEN "empty" ELSE "listed",
                  !.listing = IF empty THEN <<>> ELSE HistoryInfo(heap[o].imageHistory)]
     /\ Touch(conversation_id, FALSE)
     /\ UNCHANGED <<conversations, heap, appended, calls, files, now>>

\* default: throw new Error(`Unknown tool: ${name}`), returned by the catch of
\* the handler
UnknownTool(name, args) ==
  /\ ret' = [NoEvent EXCEPT !.tool = name, !.step = "call", !.returned = TRUE,
               !.outcome = "UnknownTool", !.isError = TRUE, !.arg = args]
  /\ NoTouch
  /\ UNCHANGED <<conversations, heap, appended, calls, files, now>>

\* generate/edit, from getOrCreateContext to the ratio checks: the outcome
\* ("InvalidArgument", "MissingConfiguration" or "ok") and the effective ratio
ResolveRatio(aspect_ratio, context) ==
  IF RejectsRatio(aspect_ratio)
  THEN [outcome |-> "InvalidArgument", ratio |-> Null]
  ELSE IF EffectiveAspectRatio(aspect_ratio, context) = Null
  THEN [outcome |-> "MissingConfiguration", ratio |-> Null]
  ELSE [outcome |-> "ok", ratio |-> EffectiveAspectRatio(aspect_ratio, context)]

\* a call whose loop over the references has run up to its next await (run):
\* it is suspended on the file of a reference, or the loop is over and the
\* request goes out: callGeminiImageAPI(parts, effectiveAspectRatio) of
\* generate and edit, and for chat the user turn pushed to the transcript and
\* chat.sendMessage(messageParts)
AfterReferences(conv, hp, c, call, run, ev) ==
  LET held == [call EXCEPT !.refIndex = run.refIndex, !.parts = run.parts,
                           !.failed = run.failed]
      parts == IF call.tool = "gemini_generate_image"
               THEN GenerateParts(hp[call.ctx], call.use_image_history, call.prompt,
                                  run.parts)
               ELSE IF call.tool = "gemini_edit_image"
               THEN EditParts(call.prompt, call.imageBase64, run.parts)
               ELSE run.parts
  IN IF run.awaiting
     THEN /\ Commit(conv, hp, appended, [calls EXCEPT ![c] = [held EXCEPT !.pc = "refs"]])
          /\ ret' = ev
     ELSE IF call.tool = "gemini_chat"
     THEN /\ Commit(conv,
                    [hp EXCEPT ![call.ctx].history =
                       Append(@, [role |-> "user", parts |-> parts])],
                    appended,
                    [calls EXCEPT ![c] = [held EXCEPT !.pc = "send",
                                            !.invocations = @ + 1]])
          \* startChat({ history: context.history.slice(0, -1) }), after the push
          /\ ret' = [ev EXCEPT !.invoked = TRUE, !.parts = parts, !.model = CHAT_MODEL,
                       !.replayed =
                         SliceButLast(Append(hp[call.ctx].history,
                                             [role |-> "user", parts |-> parts]))]
     ELSE /\ Commit(conv, hp, appended,
                    [calls EXCEPT ![c] = [held EXCEPT !.pc = "fetch", !.parts = parts,
                                            !.invocations = @ + 1]])
          /\ ret' = [ev EXCEPT !.invoked = TRUE, !.ratio = call.ratio, !.parts = parts,
                       !.model = IMAGE_MODEL]

\* case "gemini_generate_image", up to its first await: imageToBase64 of the
\* first reference image, or callGeminiImageAPI when there is none
GenerateStart(c, prompt, aspect_ratio, output_path, conversation_id, use_image_history, reference_images) ==
  LET k == KeyOf(conversation_id)
      g == GetOrCreateContext(conversations, heap, k)
      r == ResolveRatio(aspect_ratio, g.heap[g.obj])
      ev == [NoEvent EXCEPT !.tool = "gemini_generate_image", !.key = k,
               !.step = "start", !.arg = aspect_ratio, !.ratio = r.ratio]
      call == [IdleCall EXCEPT !.tool = "gemini_generate_image", !.key = k,
                 !.ctx = g.obj, !.ratio = r.ratio, !.prompt = prompt,
                 !.output_path = output_path,
                 !.use_image_history = use_image_history,
                 !.reference_images = reference_images,
                 !.supplied = reference_images]
  IN /\ calls[c].pc = "idle"
     /\ Touch(k, TRUE)
     /\ UNCHANGED <<files, now>>
     /\ IF r.outcome # "ok"
        THEN /\ Commit(g.conv, g.heap, appended, calls)
             /\ ret' = [ev EXCEPT !.returned = TRUE, !.outcome = r.outcome,
                          !.isError = TRUE]
        ELSE AfterReferences(g.conv, g.heap, c, call,
               RunReferences(call.tool, g.heap[g.obj], reference_images, 1, <<>>, <<>>),
               ev)

\* a part of a response chunk: a text fragment or inline image data (the
\* field that is absent reads as falsy)
ResponseText(t) == [data |-> "", text |-> t]
ResponseImage(d) == [data |-> d, text |-> <<>>]

\* an element of the response array: a chunk object with the parts of its first
\* candidate, a value without candidates (a number, null, a string, an object
\* of another shape), or a chunk whose parts are not iterable
Chunk(parts) == [shape |-> "chunk", parts |-> parts]
NotAChunk == [shape |-> "value", parts |-> <<>>]
BadParts == [shape |-> "badParts", parts |-> <<>>]

\* an HTTP response: response.ok, response.status, and the body, which is text
\* that is not JSON ("invalid"), JSON for a value that cannot be iterated
\* ("value": null, a number, an object), a JSON string ("string"), or a JSON
\* array ("array") of the elements above
HttpResponse(ok, status, json, text, chunks) ==
  [ok |-> ok, status |-> status, json |-> json, text |-> text, chunks |-> chunks]

\* textParts.join("")
RECURSIVE Join(_)
Join(textParts) ==
  IF Len(textParts) = 0 THEN <<>> ELSE Head(textParts) \o Join(Tail(textParts))

\* the inner loop keeping the first image rather than the last
RECURSIVE FoldParts_FirstImage(_, _, _)
FoldParts_FirstImage(parts, i, acc) ==
  IF i > Len(parts) THEN acc
  ELSE FoldParts_FirstImage(parts, i + 1,
         IF parts[i].data # ""
         THEN IF acc.imageData = Undefined
              THEN [acc EXCEPT !.imageData = parts[i].data] ELSE acc
         ELSE IF parts[i].text # <<>>
         THEN [acc EXCEPT !.textParts = Append(@, parts[i].text)]
         ELSE acc)

\* `for (const part of parts)`: inline data replaces imageData, else a text
\* that is not empty is pushed to textParts
RECURSIVE FoldParts(_, _, _)
FoldParts(parts, i, acc) ==
  IF i > Len(parts) THEN acc
  ELSE FoldParts(parts, i + 1,
         IF parts[i].data # ""
         THEN [acc EXCEPT !.imageData = parts[i].data]
         ELSE IF parts[i].text # <<>>
         THEN [acc EXCEPT !.textParts = Append(@, parts[i].text)]
         ELSE acc)

\* `for (const chunk of chunks)` with
\* `chunk?.candidates?.[0]?.content?.parts || []`; iterating parts that are not
\* iterable throws
RECURSIVE FoldChunks(_, _, _)
FoldChunks(chunks, i, acc) ==
  IF i > Len(chunks) \/ acc.threw THEN acc
  ELSE IF chunks[i].shape = "badParts" THEN [acc EXCEPT !.threw = TRUE]
  ELSE FoldChunks(chunks, i + 1, FoldParts(chunks[i].parts, 1, acc))

\* what callGeminiImageAPI returns to the handler
ApiResult(kind, imageData, textResponse, error, response) ==
  [kind |-> kind, imageData |-> imageData, textResponse |-> textResponse,
   error |-> error, response |-> response]

\* callGeminiImageAPI from the return of fetch: a status that is not ok throws
\* with the status and the body; JSON.parse throws on text that is not JSON,
\* and `for ... of` on a value that is not iterable: both return the error with
\* the body as text; a string iterates over characters, which have no
\* candidates; an array is folded
CallGeminiImageAPI(response) ==
  LET start == [imageData |-> Undefined, textParts |-> <<>>, threw |-> FALSE]
      acc == IF response.json = "array" THEN FoldChunks(response.chunks, 1, start)
             ELSE start
      parseError == ApiResult("error", Null, response.text,
                              "Failed to parse API response", response)
  IN IF ~response.ok
     THEN ApiResult("throw", Null,
                    <<"API request failed: ", response.status, " - ">> \o response.text,
                    "", response)
     ELSE IF response.json \in {"invalid", "value"} \/ acc.threw
     THEN parseError
     ELSE ApiResult(IF Truthy(acc.imageData) THEN "image" ELSE "noImage",
                    acc.imageData, Join(acc.textParts), "", response)

\* what callGeminiImageAPI can come back with: it throws (fetch fails or the
\* status is not ok), returns an error (the body does not parse), or returns
\* the text with or without image data
ApiResponses(images) ==
  {ApiResult("throw", Null, <<>>, "", NoResponse),
   ApiResult("error", Null, <<>>, "Failed to parse API response", NoResponse),
   ApiResult("noImage", Undefined, <<>>, "", NoResponse)}
  \cup {ApiResult("image", d, <<>>, "", NoResponse) : d \in images}

\* the failure text without what the model said
FailureText_WithoutModelText(tool, resp) ==
  <<IF tool = "gemini_generate_image" THEN "Image generation failed."
    ELSE "Image editing failed.", "No image returned from model">>

\* the text of the result when callGeminiImageAPI did not give an image
FailureText(tool, resp) ==
  LET generate == (tool = "gemini_generate_image")
  IN CASE resp.kind = "throw" ->
            <<IF generate THEN "Error generating image: " ELSE "Error editing image: ">>
            \o resp.textResponse
       [] resp.kind = "error" ->
            <<IF generate THEN "Image generation failed: " ELSE "Image editing failed: ",
              resp.error>> \o resp.textResponse
       [] OTHER ->
            <<IF generate THEN "Image generation failed." ELSE "Image editing failed.">>
            \o (IF Len(resp.textResponse) > 0
                THEN <<"Model response: ">> \o resp.textResponse
                ELSE <<"No image returned from model">>)

\* the response step asking the backend again, once, when the request failed
ImageResponse_RetryOnce(c, resp) ==
  LET call == calls[c]
      ev == [NoEvent EXCEPT !.tool = call.tool, !.key = call.key, !.step = "response"]
  IN /\ call.pc = "fetch"
     /\ UNCHANGED <<files, now>>
     /\ NoTouch
     /\ IF resp.kind = "image"
        THEN /\ Commit(conversations, heap, appended,
                       [calls EXCEPT ![c].pc = "save", ![c].imageData = resp.imageData,
                                     ![c].textResponse = resp.textResponse])
             /\ ret' = [ev EXCEPT !.text = resp.textResponse,
                          !.response = resp.response]
        ELSE IF resp.kind = "throw" /\ call.invocations < 2
        THEN /\ Commit(conversations, heap, appended,
                       [calls EXCEPT ![c].invocations = @ + 1])
             /\ ret' = [ev EXCEPT !.invoked = TRUE, !.ratio = call.ratio,
                          !.parts = call.parts, !.model = IMAGE_MODEL]
        ELSE /\ Commit(conversations, heap, appended, [calls EXCEPT ![c] = IdleCall])
             /\ ret' = [ev EXCEPT !.returned = TRUE,
                          !.text = FailureText(call.tool, resp),
                          !.response = resp.response,
                          !.outcome = CASE resp.kind = "throw" -> "TransportError"
                                        [] resp.kind = "error" -> "ParseError"
                                        [] OTHER -> "NoImage",
                          !.isError = (resp.kind # "throw")]

\* generate/edit, from the return of callGeminiImageAPI to the next await
\* (fs.mkdir or saveImageFromBuffer), or to the error result
ImageResponse(c, resp) ==
  LET call == calls[c]
      ev == [NoEvent EXCEPT !.tool = call.tool, !.key = call.key, !.step = "response"]
  IN /\ call.pc = "fetch"
     /\ UNCHANGED <<files, now>>
     /\ NoTouch
     /\ IF resp.kind = "image"
        THEN /\ Commit(conversations, heap, appended,
                       [calls EXCEPT ![c].pc = "save", ![c].imageData = resp.imageData,
                                     ![c].textResponse = resp.textResponse])
             /\ ret' = [ev EXCEPT !.text = resp.textResponse,
                          !.response = resp.response]
        ELSE /\ Commit(conversations, heap, appended, [calls EXCEPT ![c] = IdleCall])
             /\ ret' = [ev EXCEPT !.returned = TRUE,
                          !.text = FailureText(call.tool, resp),
                          !.response = resp.response,
                          !.outcome = CASE resp.kind = "throw" -> "TransportError"
                                        [] resp.kind = "error" -> "ParseError"
                                        [] OTHER -> "NoImage",
                          \* the catch block returns no isError
                          !.isError = (resp.kind # "throw")]

\* the path the image is saved to
FinalPath(call, t) ==
  IF Len(call.output_path) = 0
  THEN IF call.tool = "gemini_generate_image"
       THEN GeneratedPath(t)
       ELSE EditedPath(IF call.subject # NullEntry THEN HistoryName(call.subject.id)
                       ELSE ParseName(call.image_path), t)
  ELSE NormalizeOutputPath(call.output_path)

\* fs.writeFile(outputPath, buffer)
WriteFile(fs, path, data) ==
  [p \in DOMAIN fs \cup {path} |-> IF p = path THEN data ELSE fs[p]]

\* saveImageFromBuffer writing the file without making its directory
SaveImageFromBuffer_NoMkdir(fs, outputPath, buffer) ==
  WriteFile(fs, outputPath, buffer)

\* saveImageFromBuffer: the directory of the path is made, the file written
SaveImageFromBuffer(fs, outputPath, buffer) ==
  WriteFile(Mkdir(fs, Dirname(outputPath)), outputPath, buffer)

\* what the file system does to a save: all of it works, fs.mkdir throws, or
\* the directory is made and fs.writeFile throws
FsOutcomes == {"ok", "mkdir", "writeFile"}

\* generateImageId(): a token no other image of the context has
GenerateImageId(o) == appended[o] + 1

\* the save with the record added before the file is written, so that it is
\* there when the write fails
ImageSave_AppendsFirst(c, fsOutcome) ==
  LET call == calls[c]
      finalPath == FinalPath(call, now)
      entry == [id |-> GenerateImageId(call.ctx), filePath |-> finalPath,
                base64Data |-> call.imageData, mimeType |-> "image/png",
                prompt |-> call.prompt, timestamp |-> now,
                type |-> IF call.tool = "gemini_generate_image"
                         THEN "generated" ELSE "edited"]
      ev == [NoEvent EXCEPT !.tool = call.tool, !.key = call.key, !.step = "save",
               !.returned = TRUE]
  IN /\ call.pc = "save"
     /\ UNCHANGED now
     /\ NoTouch
     /\ Commit(conversations,
               [heap EXCEPT ![call.ctx] = AddImageToHistory(@, entry)],
               [appended EXCEPT ![call.ctx] = @ + 1],
               [calls EXCEPT ![c] = IdleCall])
     /\ CASE fsOutcome = "ok" ->
               /\ files' = SaveImageFromBuffer(files, finalPath, call.imageData)
               /\ ret' = [ev EXCEPT !.outcome = "ok", !.wrote = finalPath,
                            !.requested = call.output_path,
                            !.added = entry, !.warnings = call.failed,
                            !.text = call.textResponse]
          [] fsOutcome = "mkdir" ->
               /\ UNCHANGED files
               /\ ret' = [ev EXCEPT !.outcome = "WriteError"]
          [] OTHER ->
               /\ files' = Mkdir(files, Dirname(finalPath))
               /\ ret' = [ev EXCEPT !.outcome = "WriteError"]

\* generate/edit, from the file write to the result: the image is saved, then
\* added to the history of the context the call started with; the result
\* lists the reference images that could not be loaded
ImageSave(c, fsOutcome) ==
  LET call == calls[c]
      finalPath == FinalPath(call, now)
      entry == [id |-> GenerateImageId(call.ctx), filePath |-> finalPath,
                base64Data |-> call.imageData, mimeType |-> "image/png",
                prompt |-> call.prompt, timestamp |-> now,
                type |-> IF call.tool = "gemini_generate_image"
                         THEN "generated" ELSE "edited"]
      ev == [NoEvent EXCEPT !.tool = call.tool, !.key = call.key, !.step = "save",
               !.returned = TRUE]
  IN /\ call.pc = "save"
     /\ UNCHANGED now
     /\ NoTouch
     /\ CASE fsOutcome = "ok" ->
               /\ files' = SaveImageFromBuffer(files, finalPath, call.imageData)
               /\ Commit(conversations,
                         [heap EXCEPT ![call.ctx] = AddImageToHistory(@, entry)],
                         [appended EXCEPT ![call.ctx] = @ + 1],
                         [calls EXCEPT ![c] = IdleCall])
               /\ ret' = [ev EXCEPT !.outcome = "ok", !.wrote = finalPath,
                            !.requested = call.output_path,
                            !.added = entry, !.warnings = call.failed,
                            !.text = call.textResponse]
          [] fsOutcome = "mkdir" ->
               /\ UNCHANGED files
               /\ Commit(conversations, heap, appended, [calls EXCEPT ![c] = IdleCall])
               /\ ret' = [ev EXCEPT !.outcome = "WriteError"]
          [] OTHER ->
               /\ files' = Mkdir(files, Dirname(finalPath))
               /\ Commit(conversations, heap, appended, [calls EXCEPT ![c] = IdleCall])
               /\ ret' = [ev EXCEPT !.outcome = "WriteError"]

\* the subject read like a reference image: a file that is in neither place is
\* left out, and the call goes on
ReadSubjectFile_NonFatal(image_path, fs) ==
  LET first == ResolvedImagePath(image_path)
      alt == AlternativePath(image_path)
  IN IF first \in DOMAIN fs
     THEN [thrown |-> FALSE, path |-> first, data |-> fs[first], reason |-> ""]
     ELSE IF alt \in DOMAIN fs
     THEN [thrown |-> FALSE, path |-> alt, data |-> fs[alt], reason |-> ""]
     ELSE [thrown |-> FALSE, path |-> first, data |-> Null, reason |-> ""]

\* gemini_edit_image, the subject as a file: fs.access of the path, then of the
\* alternative path, then imageToBase64 of the one that exists; neither exists:
\* `throw new Error("Image file not found ...")`; the one that exists is a
\* directory: readFile throws
ReadSubjectFile(image_path, fs) ==
  LET first == ResolvedImagePath(image_path)
      alt == AlternativePath(image_path)
      path == IF first \in DOMAIN fs THEN first ELSE alt
  IN IF path \notin DOMAIN fs
     THEN [thrown |-> TRUE, path |-> <<>>, data |-> Null, reason |-> "NotFound"]
     ELSE IF fs[path] = Dir
     THEN [thrown |-> TRUE, path |-> path, data |-> Null, reason |-> "ReadError"]
     ELSE [thrown |-> FALSE, path |-> path, data |-> fs[path], reason |-> ""]

\* case "gemini_edit_image", up to its first await: fs.access when the subject
\* is a path; when it is an image of the history, the file of a reference
\* image, or callGeminiImageAPI
EditStart(c, image_path, edit_prompt, aspect_ratio, output_path, conversation_id, reference_images) ==
  LET k == KeyOf(conversation_id)
      g == GetOrCreateContext(conversations, heap, k)
      r == ResolveRatio(aspect_ratio, g.heap[g.obj])
      historyImage == GetImageFromHistory(g.heap[g.obj], image_path)
      ev == [NoEvent EXCEPT !.tool = "gemini_edit_image", !.key = k,
               !.step = "start", !.arg = aspect_ratio, !.ratio = r.ratio,
               !.ref = image_path]
      call == [IdleCall EXCEPT !.tool = "gemini_edit_image", !.key = k,
                 !.ctx = g.obj, !.ratio = r.ratio, !.prompt = edit_prompt,
                 !.image_path = image_path, !.output_path = output_path,
                 !.reference_images = SliceFirst(reference_images, ImageRefLimit),
                 !.supplied = reference_images]
      found == [call EXCEPT !.subject = historyImage,
                  !.resolvedPath = historyImage.filePath,
                  !.imageBase64 = historyImage.base64Data]
  IN /\ calls[c].pc = "idle"
     /\ Touch(k, TRUE)
     /\ UNCHANGED <<files, now>>
     /\ IF r.outcome # "ok"
        THEN /\ Commit(g.conv, g.heap, appended, calls)
             /\ ret' = [ev EXCEPT !.returned = TRUE, !.outcome = r.outcome,
                          !.isError = TRUE, !.ref = <<>>]
        ELSE IF historyImage # NullEntry
        THEN AfterReferences(g.conv, g.heap, c, found,
               RunReferences(call.tool, g.heap[g.obj], call.reference_images, 1,
                             <<>>, <<>>),
               [ev EXCEPT !.found = historyImage])
        ELSE /\ Commit(g.conv, g.heap, appended,
                       [calls EXCEPT ![c] = [call EXCEPT !.pc = "access"]])
             /\ ret' = ev

\* gemini_edit_image with a path as subject, from fs.access to its next await
\* (the file of a reference image, or callGeminiImageAPI), or to the error of
\* a file that is in neither place
EditAccess(c) ==
  LET call == calls[c]
      file == ReadSubjectFile(call.image_path, files)
      ev == [NoEvent EXCEPT !.tool = call.tool, !.key = call.key, !.step = "access",
               !.ref = call.image_path]
      read == [call EXCEPT !.resolvedPath = file.path, !.imageBase64 = file.data]
  IN /\ call.pc = "access"
     /\ UNCHANGED <<files, now>>
     /\ NoTouch
     /\ IF ~file.thrown
        THEN AfterReferences(conversations, heap, c, read,
               RunReferences(call.tool, heap[call.ctx], call.reference_images, 1,
                             <<>>, <<>>),
               ev)
        ELSE /\ Commit(conversations, heap, appended, [calls EXCEPT ![c] = IdleCall])
             \* thrown inside the try, returned by its catch, which sets no isError
             /\ ret' = [ev EXCEPT !.returned = TRUE, !.outcome = file.reason]

\* case "gemini_chat", up to its first await: the file of an image, or
\* chat.sendMessage when there is none to read
ChatStart(c, message, conversation_id, images) ==
  LET k == KeyOf(conversation_id)
      g == GetOrCreateContext(conversations, heap, k)
      imageRefs == SliceFirst(images, ImageRefLimit)
      call == [IdleCall EXCEPT !.tool = "gemini_chat", !.key = k, !.ctx = g.obj,
                 !.prompt = message, !.reference_images = imageRefs,
                 !.supplied = images]
  IN /\ calls[c].pc = "idle"
     /\ Touch(k, TRUE)
     /\ UNCHANGED <<files, now>>
     /\ AfterReferences(g.conv, g.heap, c, call,
          RunReferences(call.tool, g.heap[g.obj], imageRefs, 1,
                        <<TextPart(<<message>>)>>, <<>>),
          [NoEvent EXCEPT !.tool = "gemini_chat", !.key = k, !.step = "start"])

\* a reference loop without its try/catch: a file that cannot be read ends the
\* call with the error
ReferenceStep_Fatal(c) ==
  LET call == calls[c]
      imgRef == call.reference_images[call.refIndex]
      loaded == LoadReference(call.tool, imgRef, files)
      ev == [NoEvent EXCEPT !.tool = call.tool, !.key = call.key, !.step = "reference",
               !.ref = imgRef]
  IN /\ call.pc = "refs"
     /\ UNCHANGED <<files, now>>
     /\ NoTouch
     /\ IF loaded.ok
        THEN AfterReferences(conversations, heap, c, call,
               RunReferences(call.tool, heap[call.ctx], call.reference_images,
                             call.refIndex + 1, Append(call.parts, loaded.part),
                             call.failed),
               ev)
        ELSE /\ Commit(conversations, heap, appended, [calls EXCEPT ![c] = IdleCall])
             /\ ret' = [ev EXCEPT !.returned = TRUE, !.outcome = "ReadError"]

\* a call suspended on the file of a reference: the file is read and its part
\* added, or the failure noted; then the loop goes on to its next await
ReferenceStep(c) ==
  LET call == calls[c]
      imgRef == call.reference_images[call.refIndex]
      loaded == LoadReference(call.tool, imgRef, files)
      parts == IF loaded.ok THEN Append(call.parts, loaded.part) ELSE call.parts
      failed == IF loaded.ok THEN call.failed ELSE Append(call.failed, loaded.failure)
  IN /\ call.pc = "refs"
     /\ UNCHANGED <<files, now>>
     /\ NoTouch
     /\ AfterReferences(conversations, heap, c, call,
          RunReferences(call.tool, heap[call.ctx], call.reference_images,
                        call.refIndex + 1, parts, failed),
          [NoEvent EXCEPT !.tool = call.tool, !.key = call.key, !.step = "reference",
             !.ref = imgRef])

\* gemini_chat, from the return of chat.sendMessage to the result; text is the
\* model's answer, or Null when sendMessage throws
\* the answer of a chat kept in a transcript of at most two turns
ChatResponse_Evicts(c, text) ==
  LET call == calls[c]
      turn == [role |-> "model", parts |-> <<TextPart(<<text>>)>>]
      ev == [NoEvent EXCEPT !.tool = "gemini_chat", !.key = call.key,
               !.step = "response", !.returned = TRUE]
  IN /\ call.pc = "send"
     /\ UNCHANGED <<files, now>>
     /\ NoTouch
     /\ IF text # Null
        THEN /\ Commit(conversations,
                       [heap EXCEPT ![call.ctx].history = SliceLast(Append(@, turn), 2)],
                       appended, [calls EXCEPT ![c] = IdleCall])
             /\ ret' = [ev EXCEPT !.outcome = "ok", !.parts = call.parts,
                          !.warnings = call.failed, !.text = <<text>>]
        ELSE /\ Commit(conversations, heap, appended, [calls EXCEPT ![c] = IdleCall])
             /\ ret' = [ev EXCEPT !.outcome = "BackendError", !.isError = TRUE]

ChatResponse(c, text) ==
  LET call == calls[c]
      turn == [role |-> "model", parts |-> <<TextPart(<<text>>)>>]
      ev == [NoEvent EXCEPT !.tool = "gemini_chat", !.key = call.key,
               !.step = "response", !.returned = TRUE]
  IN /\ call.pc = "send"
     /\ UNCHANGED <<files, now>>
     /\ NoTouch
     /\ IF text # Null
        THEN /\ Commit(conversations,
                       [heap EXCEPT ![call.ctx].history = Append(@, turn)], appended,
                       [calls EXCEPT ![c] = IdleCall])
             /\ ret' = [ev EXCEPT !.outcome = "ok", !.parts = call.parts,
                          !.warnings = call.failed, !.text = <<text>>]
        ELSE /\ Commit(conversations, heap, appended, [calls EXCEPT ![c] = IdleCall])
             \* caught by the handler's outer catch
             /\ ret' = [ev EXCEPT !.outcome = "BackendError", !.isError = TRUE]

(***************************************************************************)
(* The server on the default conversation id: every tool, one call in      *)
(* flight, the other tools interleaved at its awaits.  The calls pass no   *)
(* reference_images, use_image_history or images, so the request parts     *)
(* are the prompt (and the subject of an edit) alone, and the clock does   *)
(* not advance between them.                                               *)
(***************************************************************************)
MaxAppends == 1
MaxTurns == 1

\* the arguments the model draws from
RatioArgs == {Undefined, "16:9", "bogus", ""}
SetRatioArgs == {"1:1", "bogus"}
MissingImage == <<"x", ".", "p", "n", "g">>
ImagePaths == {LastRef, OldImage, MissingImage}

\* the length of the transcript of conversation id k, 0 when it has no context
TranscriptLen(k) ==
  IF conversations[k] = NoObj THEN 0 ELSE Len(heap[conversations[k]].history)

Next ==
  \/ \E a \in SetRatioArgs : SetAspectRatio(a, Undefined)
  \/ ClearConversation("default")
  \/ GetImageHistory("default")
  \/ \E a \in RatioArgs : GenerateStart(1, "p", a, <<>>, Undefined, FALSE, <<>>)
  \/ \E ip \in ImagePaths, a \in RatioArgs : EditStart(1, ip, "e", a, <<>>, Undefined, <<>>)
  \/ EditAccess(1)
  \/ \E resp \in ApiResponses({"img"}) : ImageResponse(1, resp)
  \/ \E fsOutcome \in FsOutcomes :
       /\ calls[1].pc = "save"
       /\ appended[calls[1].ctx] < MaxAppends
       /\ ImageSave(1, fsOutcome)
  \/ TranscriptLen("default") < MaxTurns /\ ChatStart(1, "m", Undefined, <<>>)
  \/ \E text \in {"r", Null} : ChatResponse(1, text)

Spec == Init /\ [][Next]_vars

(***************************************************************************)
(* A long session: generate and edit calls on the default conversation id  *)
(* until the history has been full for a while, edits naming their subject *)
(* by every kind of reference.                                             *)
(***************************************************************************)
MaxLongAppends == 12

HistoryRef(digits) == HistoryPrefix \o digits

SubjectRefs ==
  {LastRef,
   HistoryRef(<<"0">>), HistoryRef(<<"9">>), HistoryRef(<<"1", "0">>),
   HistoryRef(<<"0", "1">>), HistoryRef(<<>>), HistoryRef(<<"-", "1">>),
   HistoryRef(<<"x">>)}

OutPng == <<"o", "u", "t", ".", "p", "n", "g">>

NextHistory ==
  \/ GenerateStart(1, "p", "16:9", <<>>, Undefined, FALSE, <<>>)
  \/ \E ip \in SubjectRefs : EditStart(1, ip, "e", "16:9", OutPng, Undefined, <<>>)
  \/ EditAccess(1)
  \/ \E resp \in ApiResponses({"img"}) : ImageResponse(1, resp)
  \/ /\ calls[1].pc = "save"
     /\ appended[calls[1].ctx] < MaxLongAppends
     /\ ImageSave(1, "ok")

SpecHistory == Init /\ [][NextHistory]_vars

(***************************************************************************)
(* The tool surface: every name the handler switches on, with the fewest   *)
(* arguments that take each of its returns, and names it does not know.    *)
(***************************************************************************)
\* names the switch has no case for; set_model is the tool the README and
\* CLAUDE.md list next to the six of the handler
UnknownNames == {"set_model", "no_such_tool"}

\* the model argument the documentation gives set_model
ModelArgs == {"flash", "pro"}

NextTools ==
  \/ \E name \in UnknownNames, m \in ModelArgs : UnknownTool(name, m)
  \/ \E a \in SetRatioArgs : SetAspectRatio(a, Undefined)
  \/ ClearConversation("default")
  \/ GetImageHistory("default")
  \/ \E a \in {Undefined, "16:9"} :
       GenerateStart(1, "p", a, <<>>, Undefined, FALSE, <<>>)
  \/ \E ip \in {LastRef, MissingImage}, a \in {Undefined, "16:9"} :
       EditStart(1, ip, "e", a, <<>>, Undefined, <<>>)
  \/ EditAccess(1)
  \/ \E resp \in ApiResponses({"img"}) : ImageResponse(1, resp)
  \/ \E fsOutcome \in FsOutcomes :
       /\ calls[1].pc = "save"
       /\ appended[calls[1].ctx] < MaxAppends
       /\ ImageSave(1, fsOutcome)
  \/ TranscriptLen("default") < MaxTurns /\ ChatStart(1, "m", Undefined, <<>>)
  \/ \E text \in {"r", Null} : ChatResponse(1, text)

SpecTools == Init /\ [][NextTools]_vars

(***************************************************************************)
(* Calls with reference images: lists that mix a file that is there, a     *)
(* file that is not, a file that is in the default directory only, a       *)
(* directory and a reference to the history.                               *)
(***************************************************************************)
MaxRefAppends == 2

RefLists ==
  {<<>>, <<MissingImage>>, <<UserImage, MissingImage>>,
   <<MissingImage, LastRef, OldImage, Cwd>>}

NextRefs ==
  \/ \E h \in BOOLEAN, refs \in RefLists :
       GenerateStart(1, "p", "16:9", <<>>, Undefined, h, refs)
  \/ \E ip \in {LastRef, UserImage}, refs \in RefLists :
       EditStart(1, ip, "e", "16:9", <<>>, Undefined, refs)
  \/ EditAccess(1)
  \/ ReferenceStep(1)
  \/ \E resp \in ApiResponses({"img"}) : ImageResponse(1, resp)
  \/ \E fsOutcome \in FsOutcomes :
       /\ calls[1].pc = "save"
       /\ appended[calls[1].ctx] < MaxRefAppends
       /\ ImageSave(1, fsOutcome)
  \/ \E refs \in RefLists :
       TranscriptLen("default") < MaxTurns /\ ChatStart(1, "m", Undefined, refs)
  \/ \E text \in {"r", Null} : ChatResponse(1, text)

SpecRefs == Init /\ [][NextRefs]_vars

(***************************************************************************)
(* Calls that name where the image goes: relative and absolute paths, in   *)
(* directories with and without a dot, with every kind of ending.          *)
(***************************************************************************)
MaxPathAppends == 1

OutputStems ==
  {<<"o", "u", "t">>, <<"/", "t", "/", "o", "u", "t">>,
   <<"d", ".", "e", "/", "o", "u", "t">>}

OutputEndings ==
  {<<>>, PngExt, <<".", "P", "N", "G">>, <<".", "j", "p", "g">>, <<".">>,
   <<".", "t", "a", "r", ".", "g", "z">>, <<".", "p", "n", "g", ".", "j", "p", "g">>}

OutputPaths ==
  {stem \o ending : stem \in OutputStems, ending \in OutputEndings}
  \cup {<<".", "j", "p", "g">>}

NextPaths ==
  \/ \E op \in OutputPaths : GenerateStart(1, "p", "16:9", op, Undefined, FALSE, <<>>)
  \/ \E ip \in {LastRef, UserImage}, op \in OutputPaths :
       EditStart(1, ip, "e", "16:9", op, Undefined, <<>>)
  \/ EditAccess(1)
  \/ \E resp \in ApiResponses({"img"}) : ImageResponse(1, resp)
  \/ \E fsOutcome \in FsOutcomes :
       /\ calls[1].pc = "save"
       /\ appended[calls[1].ctx] < MaxPathAppends
       /\ ImageSave(1, fsOutcome)

SpecPaths == Init /\ [][NextPaths]_vars

(***************************************************************************)
(* A long history that is listed at every point of its growth.             *)
(***************************************************************************)
NextListing ==
  \/ GetImageHistory("default")
  \/ GenerateStart(1, "p", "16:9", <<>>, Undefined, FALSE, <<>>)
  \/ \E ip \in {LastRef, HistoryRef(<<"0">>)} :
       EditStart(1, ip, "e", "16:9", OutPng, Undefined, <<>>)
  \/ EditAccess(1)
  \/ \E resp \in ApiResponses({"img"}) : ImageResponse(1, resp)
  \/ /\ calls[1].pc = "save"
     /\ appended[calls[1].ctx] < MaxLongAppends
     /\ ImageSave(1, "ok")

SpecListing == Init /\ [][NextListing]_vars

(***************************************************************************)
(* Two conversation ids, each with a client of its own, so that the calls  *)
(* of one run while a call of the other is in flight.  The prompt of a     *)
(* call is the id it is made on.  "default" is given a default ratio, an   *)
(* image and a transcript; every operation is made on "s".                 *)
(***************************************************************************)
\* an image comes back from the backend
ImageArrives == ApiResult("image", "img", <<>>, "", NoResponse)

NextSessions ==
  \/ SetAspectRatio("1:1", Undefined)
  \/ GenerateStart(1, "default", "16:9", <<>>, Undefined, FALSE, <<>>)
  \/ ImageResponse(1, ImageArrives)
  \/ /\ calls[1].pc = "save"
     /\ appended[calls[1].ctx] < MaxAppends
     /\ ImageSave(1, "ok")
  \/ TranscriptLen("default") < MaxTurns /\ ChatStart(1, "default", Undefined, <<>>)
  \/ ChatResponse(1, "r")
  \/ SetAspectRatio("1:1", "s")
  \/ ClearConversation("s")
  \/ GetImageHistory("s")
  \/ \E a \in {Undefined, "16:9"} : GenerateStart(2, "s", a, <<>>, "s", FALSE, <<>>)
  \/ EditStart(2, LastRef, "s", "16:9", <<>>, "s", <<>>)
  \/ EditAccess(2)
  \/ ImageResponse(2, ImageArrives)
  \/ /\ calls[2].pc = "save"
     /\ appended[calls[2].ctx] < MaxAppends
     /\ ImageSave(2, "ok")
  \/ TranscriptLen("s") < MaxTurns /\ ChatStart(2, "s", "s", <<>>)
  \/ ChatResponse(2, "r")

SpecSessions == Init /\ [][NextSessions]_vars

(***************************************************************************)
(* Calls that name no output path, on a host that has never saved an image *)
(* (the default directory is not there), while the clock runs.             *)
(***************************************************************************)
MaxClock == 2
MaxDefaultAppends == 2

InitFresh ==
  /\ conversations = [k \in AllKeys |-> NoObj]
  /\ heap = [o \in {} |-> NewContext]
  /\ appended = [o \in ObjIds |-> 0]
  /\ calls = [c \in AllCalls |-> IdleCall]
  /\ files = FreshFiles
  /\ now = 0
  /\ ret = NoEvent
  /\ referenced = [k \in AllKeys |-> FALSE]
  /\ established = [k \in AllKeys |-> FALSE]
  /\ clearedRatio = [k \in AllKeys |-> Null]

NextDefaults ==
  \/ now < MaxClock /\ Tick
  \/ GenerateStart(1, "p", "16:9", <<>>, Undefined, FALSE, <<>>)
  \/ \E ip \in {LastRef, UserImage, NestedImage, JoinPath(Cwd, NestedImage)} :
       EditStart(1, ip, "e", "16:9", <<>>, Undefined, <<>>)
  \/ EditAccess(1)
  \/ \E resp \in ApiResponses({"img"}) : ImageResponse(1, resp)
  \/ \E fsOutcome \in FsOutcomes :
       /\ calls[1].pc = "save"
       /\ appended[calls[1].ctx] < MaxDefaultAppends
       /\ ImageSave(1, fsOutcome)

SpecDefaults == InitFresh /\ [][NextDefaults]_vars

(***************************************************************************)
(* Requests and their parts: a history that grows past the images a        *)
(* request takes from it, more references than a request takes, and a      *)
(* backend that returns a different image each time.                       *)
(***************************************************************************)
MaxPartAppends == 4
MaxPartTurns == 3

\* the images the backend returns, one after the other
Payloads == <<"i1", "i2", "i3", "i4", "i5", "i6">>

\* the file the first generate without output_path writes while the clock stands
FirstGenerated == GeneratedPath(0)

\* eleven references: the eleventh is the only one of its kind
ElevenRefs ==
  <<FirstGenerated, MissingImage, LastRef, UserImage, UserImage, UserImage,
    UserImage, UserImage, UserImage, UserImage, OldImage>>

PartRefLists == {<<>>, <<UserImage, MissingImage, FirstGenerated>>, ElevenRefs}

NextParts ==
  \/ SetAspectRatio("1:1", Undefined)
  \/ \E h \in BOOLEAN, refs \in PartRefLists :
       GenerateStart(1, "p", Undefined, <<>>, Undefined, h, refs)
  \/ \E ip \in {LastRef, UserImage}, refs \in PartRefLists :
       EditStart(1, ip, "e", Undefined, <<>>, Undefined, refs)
  \/ EditAccess(1)
  \/ ReferenceStep(1)
  \/ /\ calls[1].pc = "fetch"
     /\ ImageResponse(1, ApiResult("image", Payloads[appended[calls[1].ctx] + 1],
                                    <<>>, "", NoResponse))
  \/ /\ calls[1].pc = "save"
     /\ appended[calls[1].ctx] < MaxPartAppends
     /\ ImageSave(1, "ok")

SpecParts == Init /\ [][NextParts]_vars

\* chats, with and without images, next to the other tools of a conversation
\* that is cleared now and then
ChatImageLists == {<<>>, <<UserImage, MissingImage>>}

NextTranscript ==
  \/ SetAspectRatio("1:1", Undefined)
  \/ ClearConversation("default")
  \/ GetImageHistory("default")
  \/ GenerateStart(1, "p", "16:9", <<>>, Undefined, FALSE, <<>>)
  \/ \E resp \in ApiResponses({"img"}) : ImageResponse(1, resp)
  \/ /\ calls[1].pc = "save"
     /\ appended[calls[1].ctx] < MaxAppends
     /\ ImageSave(1, "ok")
  \/ \E refs \in ChatImageLists :
       TranscriptLen("default") < MaxPartTurns /\ ChatStart(1, "m", Undefined, refs)
  \/ ReferenceStep(1)
  \/ \E text \in {"r", Null} : ChatResponse(1, text)

SpecTranscript == Init /\ [][NextTranscript]_vars

\* two chats on one conversation, each sent while the other may be in flight;
\* every request is answered
MaxChatTurns == 5

NextChats ==
  \/ TranscriptLen("default") < MaxChatTurns /\ ChatStart(1, "a", Undefined, <<>>)
  \/ \E refs \in ChatImageLists :
       TranscriptLen("default") < MaxChatTurns /\ ChatStart(2, "b", Undefined, refs)
  \/ ReferenceStep(2)
  \/ ChatResponse(1, "ra")
  \/ ChatResponse(2, "rb")

SpecChats == Init /\ [][NextChats]_vars

\* two generate calls on one conversation, each started while the other may be
\* in flight, until the history has been full and has dropped records
NextConcurrent ==
  \/ GenerateStart(1, "p", "16:9", <<>>, Undefined, FALSE, <<>>)
  \/ ImageResponse(1, ImageArrives)
  \/ /\ calls[1].pc = "save"
     /\ appended[calls[1].ctx] < MaxLongAppends
     /\ ImageSave(1, "ok")
  \/ GenerateStart(2, "q", "16:9", <<>>, Undefined, FALSE, <<>>)
  \/ ImageResponse(2, ImageArrives)
  \/ /\ calls[2].pc = "save"
     /\ appended[calls[2].ctx] < MaxLongAppends
     /\ ImageSave(2, "ok")

SpecConcurrent == Init /\ [][NextConcurrent]_vars

\* generate and edit calls with and without an output path, each answered
\* with an image of its own, while the clock advances or stands
NextOverwrite ==
  \/ now < MaxClock /\ Tick
  \/ \E out \in {<<>>, OutPng} :
       GenerateStart(1, "p", "16:9", out, Undefined, FALSE, <<>>)
  \/ \E out \in {<<>>, OutPng} :
       EditStart(1, LastRef, "e", "16:9", out, Undefined, <<>>)
  \/ /\ calls[1].pc = "fetch"
     /\ ImageResponse(1, ApiResult("image", Payloads[appended[calls[1].ctx] + 1],
                                    <<>>, "", NoResponse))
  \/ /\ calls[1].pc = "save"
     /\ appended[calls[1].ctx] < MaxDefaultAppends
     /\ ImageSave(1, "ok")

SpecOverwrite == Init /\ [][NextOverwrite]_vars

\* the responses of the backend: at most MaxChunks chunks of at most two parts,
\* bodies that are not an array of chunks, and statuses that are not ok
MaxChunks == 2

ResponseParts ==
  {ResponseText(<<"a">>), ResponseText(<<"b">>), ResponseImage("X"), ResponseImage("Y")}

ChunkParts ==
  {<<>>, <<ResponseText(<<>>)>>} \cup {<<p>> : p \in ResponseParts}
  \cup {<<p, q>> : p \in ResponseParts, q \in ResponseParts}

ArrayElements == {Chunk(parts) : parts \in ChunkParts} \cup {NotAChunk, BadParts}

Responses ==
  {HttpResponse(TRUE, "200", "array", <<>>, chunks) :
     chunks \in UNION {[1..n -> ArrayElements] : n \in 0..MaxChunks}}
  \cup {HttpResponse(TRUE, "200", "invalid", <<"<", "h", ">">>, <<>>),
        HttpResponse(TRUE, "200", "value", <<"7">>, <<>>),
        HttpResponse(TRUE, "200", "string", <<"\"", "n", "o", "\"">>, <<>>),
        HttpResponse(FALSE, "500", "invalid", <<"d", "o", "w", "n">>, <<>>),
        HttpResponse(FALSE, "429", "value", <<"{", "}">>, <<>>)}

\* generate and edit calls against a backend that answers with any of the
\* responses
NextBackend ==
  \/ GenerateStart(1, "p", "16:9", <<>>, Undefined, FALSE, <<>>)
  \/ \E ip \in {LastRef, UserImage} :
       EditStart(1, ip, "e", "16:9", <<>>, Undefined, <<>>)
  \/ EditAccess(1)
  \/ \E response \in Responses : ImageResponse(1, CallGeminiImageAPI(response))
  \/ /\ calls[1].pc = "save"
     /\ appended[calls[1].ctx] < MaxAppends
     /\ ImageSave(1, "ok")

SpecBackend == Init /\ [][NextBackend]_vars

\* chats with images, on a conversation that comes to have an image and a
\* transcript
NextChatParts ==
  \/ GenerateStart(1, "p", "16:9", <<>>, Undefined, FALSE, <<>>)
  \/ /\ calls[1].pc = "fetch"
     /\ ImageResponse(1, ApiResult("image", Payloads[appended[calls[1].ctx] + 1],
                                    <<>>, "", NoResponse))
  \/ /\ calls[1].pc = "save"
     /\ appended[calls[1].ctx] < MaxAppends
     /\ ImageSave(1, "ok")
  \/ \E refs \in PartRefLists :
       TranscriptLen("default") < MaxPartTurns /\ ChatStart(1, "m", Undefined, refs)
  \/ ReferenceStep(1)
  \/ \E text \in {"r", Null} : ChatResponse(1, text)

SpecChatParts == Init /\ [][NextChatParts]_vars

(***************************************************************************)
(* References of every kind in every place a call takes one: the images    *)
(* of a chat, the reference images of generate and edit, the subject of    *)
(* an edit.                                                                *)
(***************************************************************************)
SubjectPaths == {LastRef, HistoryRef(<<"0">>), UserImage, OldImage, MissingImage}

NextResolve ==
  \/ \E refs \in RefLists : GenerateStart(1, "p", "16:9", <<>>, Undefined, FALSE, refs)
  \/ \E ip \in SubjectPaths, refs \in RefLists :
       EditStart(1, ip, "e", "16:9", <<>>, Undefined, refs)
  \/ EditAccess(1)
  \/ ReferenceStep(1)
  \/ /\ calls[1].pc = "fetch"
     /\ ImageResponse(1, ApiResult("image", Payloads[appended[calls[1].ctx] + 1],
                                    <<>>, "", NoResponse))
  \/ /\ calls[1].pc = "save"
     /\ appended[calls[1].ctx] < MaxRefAppends
     /\ ImageSave(1, "ok")
  \/ \E refs \in RefLists :
       TranscriptLen("default") < MaxTurns /\ ChatStart(1, "m", Undefined, refs)
  \/ ChatResponse(1, "r")

SpecResolve == Init /\ [][NextResolve]_vars

(***************************************************************************)
(* The properties.                                                         *)
(***************************************************************************)
ImageTools == {"gemini_generate_image", "gemini_edit_image"}
RatioFailures == {"InvalidArgument", "MissingConfiguration"}
TenRatios == {"1:1", "9:16", "16:9", "3:4", "4:3", "3:2", "2:3", "5:4", "4:5", "21:9"}

\* what conversation id k holds: its context, or that of a new one when it has none
SessionView(k) ==
  IF conversations[k] = NoObj THEN NewContext ELSE heap[conversations[k]]

AllViews == [k \in AllKeys |-> SessionView(k)]

\* C1: ratio resolution of generate-image and edit-image: no explicit ratio and
\* no session default fails with MissingConfiguration; a valid explicit ratio is
\* the effective ratio whatever the default; no explicit ratio and a session
\* default gives the default; an explicit ratio outside the ten valid values
\* fails with InvalidArgument whatever the default.
C1_RatioResolution ==
  (ret.step = "start" /\ ret.tool \in ImageTools) =>
    LET explicit == ret.arg
        sessionDefault == SessionView(ret.key).aspectRatio
    IN /\ (explicit = Undefined /\ sessionDefault = Null)
            => ret.outcome = "MissingConfiguration"
       /\ explicit \in TenRatios
            => ret.outcome \notin RatioFailures /\ ret.ratio = explicit
       /\ (explicit = Undefined /\ sessionDefault # Null)
            => ret.outcome \notin RatioFailures /\ ret.ratio = sessionDefault
       /\ (explicit # Undefined /\ explicit \notin TenRatios)
            => ret.outcome = "InvalidArgument"

\* C2: a generate-image or edit-image call whose ratio resolution fails returns
\* at once: it invokes no backend, writes no file, starts no call in flight, and
\* leaves the transcript, image history and default ratio of every session as
\* they were.
C2_RatioFailureChangesNothing ==
  [][(ret'.step = "start" /\ ret'.tool \in ImageTools /\ ret'.outcome \in RatioFailures)
       => /\ ret'.returned /\ ~ret'.invoked /\ ret'.wrote = <<>>
          /\ calls' = calls
          /\ files' = files
          /\ AllViews' = AllViews]_vars

C2_Witness ==
  /\ ret.step = "start" /\ ret.tool \in ImageTools /\ ret.outcome = "InvalidArgument"
  /\ Len(SessionView(ret.key).imageHistory) > 0
  /\ Len(SessionView(ret.key).history) > 0
  /\ SessionView(ret.key).aspectRatio # Null

\* C3: in every reachable state the image history of every context holds at
\* most 10 entries.
C3_HistoryBounded ==
  \A o \in DOMAIN heap : Len(heap[o].imageHistory) <= 10

C3_Witness ==
  \E o \in DOMAIN heap : Len(heap[o].imageHistory) = 10 /\ appended[o] > 10

\* C4: after N successful generate/edit calls on a context its image history
\* has min(N, 10) entries, and they are the most recent ones in call order,
\* oldest first: the i-th of them is the (N - length + i)-th image added.
C4_MostRecentInOrder ==
  \A o \in DOMAIN heap :
    LET h == heap[o].imageHistory
        n == appended[o]
    IN /\ Len(h) = IF n < 10 THEN n ELSE 10
       /\ \A i \in 1..Len(h) : h[i].id = n - Len(h) + i

C4_Witness ==
  \E o \in DOMAIN heap : appended[o] > 11 /\ Len(heap[o].imageHistory) = 10

\* C5: the reference "last" gives the tail of the image history, and nothing
\* exactly when the history is empty.
C5_LastIsTail ==
  (ret.step = "start" /\ ret.tool = "gemini_edit_image" /\ ret.ref = LastRef) =>
    LET h == SessionView(ret.key).imageHistory
    IN IF Len(h) = 0 THEN ret.found = NullEntry
       ELSE ret.found = h[Len(h)] /\ ret.found # NullEntry

C5_Witness ==
  /\ ret.step = "start" /\ ret.tool = "gemini_edit_image" /\ ret.ref = LastRef
  /\ Len(SessionView(ret.key).imageHistory) = 10
  /\ ret.found.id > 10

\* the references that are not "history:" followed by digits only
MalformedRefs == {HistoryPrefix, HistoryPrefix \o <<"-", "1">>, HistoryPrefix \o <<"x">>}

\* the largest index the properties ask about
MaxIndex == 12

\* C6 as claimed: "history:K" gives the (K+1)-th image ever added to the
\* session for 0 <= K < length, and nothing for any other K and for a suffix
\* that is negative or not a number; a malformed reference raises no error
\* (the call goes on to read it as a path).
C6_KthInserted ==
  (ret.step = "start" /\ ret.tool = "gemini_edit_image") =>
    LET h == SessionView(ret.key).imageHistory
    IN /\ \A K \in 0..MaxIndex :
            ret.ref = HistoryPrefix \o NumToStr(K) =>
              IF K < Len(h) THEN ret.found.id = K + 1 ELSE ret.found = NullEntry
       /\ ret.ref \in MalformedRefs =>
            ret.found = NullEntry /\ ~ret.returned /\ calls[1].pc = "access"

\* C6 as amended: "history:K" gives the entry at zero-based position K of the
\* history as it is now (the (K+1)-th oldest entry still kept), and nothing for
\* any other K and for a suffix that is negative or not a number; a malformed
\* reference raises no error.
C6_KthRetained ==
  (ret.step = "start" /\ ret.tool = "gemini_edit_image") =>
    LET h == SessionView(ret.key).imageHistory
    IN /\ \A K \in 0..MaxIndex :
            ret.ref = HistoryPrefix \o NumToStr(K) =>
              IF K < Len(h) THEN ret.found = h[K + 1] /\ ret.found # NullEntry
              ELSE ret.found = NullEntry
       /\ ret.ref \in MalformedRefs =>
            ret.found = NullEntry /\ ~ret.returned /\ calls[1].pc = "access"

C6_Witness ==
  /\ ret.step = "start" /\ ret.tool = "gemini_edit_image"
  /\ ret.ref = HistoryPrefix \o NumToStr(9)
  /\ ret.found.id > 10

\* neither the path of the reference nor its basename in the default directory
\* is a file
Unresolvable(image_path, fs) ==
  \A p \in DOMAIN fs :
    /\ p # (IF image_path[1] = "/" THEN image_path ELSE Cwd \o <<"/">> \o image_path)
    /\ p # GeneratedDir \o <<"/">> \o Basename(image_path)

\* C7: an edit-image call whose subject is no history hit and no file in either
\* place fails with NotFound before any backend invocation and any change: the
\* sessions, the contexts and the files are as before.
C7_UnresolvableSubject ==
  [][\A c \in AllCalls :
       (/\ calls[c].pc = "access"
        /\ calls'[c] # calls[c]
        /\ Unresolvable(calls[c].image_path, files))
         => /\ ret'.tool = "gemini_edit_image" /\ ret'.outcome = "NotFound"
            /\ ret'.returned /\ ~ret'.invoked /\ ret'.wrote = <<>>
            /\ calls[c].invocations = 0 /\ calls'[c] = IdleCall
            /\ files' = files
            /\ AllViews' = AllViews
            /\ conversations' = conversations
            /\ \A o \in DOMAIN heap' : heap'[o] = heap[o]]_vars

C7_Witness ==
  /\ ret.tool = "gemini_edit_image" /\ ret.outcome = "NotFound"
  /\ ret.ref = MissingImage
  /\ Len(SessionView(ret.key).imageHistory) > 0

\* C8: clear-session on k leaves k without a context; from then on
\* list-history(k) reports empty, and a generate call on k finds a new empty
\* context with no default ratio: without an explicit ratio it fails with
\* MissingConfiguration, whatever ratio was configured before the clear.
C8_ClearThenFresh ==
  [][\A k \in AllKeys :
       /\ (ret'.tool = "clear_conversation" /\ ret'.key = k)
            => conversations'[k] = NoObj
       /\ (conversations[k] = NoObj /\ ret'.tool = "get_image_history" /\ ret'.key = k)
            => ret'.outcome = "empty" /\ conversations'[k] = NoObj
       /\ (/\ conversations[k] = NoObj
           /\ ret'.tool = "gemini_generate_image" /\ ret'.step = "start" /\ ret'.key = k)
            => /\ conversations'[k] # NoObj
               /\ SessionView(k)' = NewContext
               /\ ret'.arg = Undefined
                    => ret'.outcome = "MissingConfiguration" /\ ~ret'.invoked]_vars

C8_Witness ==
  /\ ret.tool = "gemini_generate_image" /\ ret.step = "start"
  /\ ret.arg = Undefined /\ ret.outcome = "MissingConfiguration"
  /\ clearedRatio[ret.key] = "1:1"
  /\ conversations[ret.key] # NoObj
  /\ SessionView(ret.key) = NewContext

\* C9: set_aspect_ratio with a ratio outside the ten valid values fails with
\* InvalidArgument and changes no session; with a valid ratio it sets the
\* default ratio of the session, created if need be, to that ratio and changes
\* nothing else; a later generate or edit without an explicit ratio uses it.
C9_SetAspectRatio ==
  [][\A k \in AllKeys :
       /\ (ret'.tool = "set_aspect_ratio" /\ ret'.key = k) =>
            IF ret'.arg \in TenRatios
            THEN /\ ret'.outcome = "ok" /\ ~ret'.isError
                 /\ conversations'[k] # NoObj
                 /\ SessionView(k)' = [SessionView(k) EXCEPT !.aspectRatio = ret'.arg]
            ELSE /\ ret'.outcome = "InvalidArgument" /\ ret'.isError
                 /\ conversations' = conversations
                 /\ AllViews' = AllViews
       /\ (/\ ret'.step = "start" /\ ret'.tool \in ImageTools /\ ret'.key = k
           /\ ret'.arg = Undefined /\ SessionView(k).aspectRatio # Null)
            => /\ ret'.outcome \notin RatioFailures
               /\ ret'.ratio = SessionView(k).aspectRatio]_vars

C9_Witness ==
  /\ ret.step = "start" /\ ret.tool \in ImageTools
  /\ ret.arg = Undefined /\ ret.ratio = "1:1" /\ ret.invoked

\* C10 as claimed: a context for k exists if and only if some operation (chat,
\* generate, edit, configure-ratio, list-history) has named k since the last
\* clear of k.
C10_ExistsIffReferenced ==
  \A k \in AllKeys : (conversations[k] # NoObj) <=> referenced[k]

\* C10 as amended: a context for k exists if and only if a chat, a generate, an
\* edit or a configure-ratio with a valid ratio has named k since the last clear
\* of k; list-history and a configure-ratio with an invalid ratio create none.
C10_ExistsIffEstablished ==
  \A k \in AllKeys : (conversations[k] # NoObj) <=> established[k]

C10_Witness ==
  /\ referenced["default"] /\ ~established["default"]
  /\ conversations["default"] = NoObj
  /\ ret.tool = "get_image_history"

\* what the server holds, apart from the report of the last step
Held == <<conversations, heap, appended, calls, files>>

\* C11: clear_conversation always succeeds and leaves the id without a context;
\* on an id that has no context it returns its confirmation and changes
\* nothing, so a second clear of the same id changes nothing the first left.
C11_ClearAlwaysSucceeds ==
  [][\A k \in AllKeys :
       (ret'.tool = "clear_conversation" /\ ret'.key = k) =>
         /\ ret'.returned /\ ret'.outcome = "ok" /\ ~ret'.isError
         /\ conversations'[k] = NoObj
         /\ files' = files /\ calls' = calls
         /\ \A j \in AllKeys \ {k} : conversations'[j] = conversations[j]
         /\ conversations[k] = NoObj => Held' = Held
         /\ (ret.tool = "clear_conversation" /\ ret.key = k) => Held' = Held]_vars

C11_Witness ==
  /\ ret.tool = "clear_conversation" /\ ret.outcome = "ok" /\ ~ret.hadContext
  /\ conversations[ret.key] = NoObj
  /\ calls[1].pc = "fetch" /\ calls[1].key = ret.key

\* the outcomes that report a failure
FailureOutcomes ==
  {"InvalidArgument", "MissingConfiguration", "NotFound", "ReadError",
   "TransportError", "ParseError", "NoImage", "WriteError", "BackendError",
   "UnknownTool"}

\* C12: every step that ends a call returns a result; when the call failed,
\* an unknown tool name included, the result is a failure result (isError)
\* and the slot of the call is free again; a step that does not return leaves
\* the call at an await; a call to an unknown tool leaves the registry, the
\* contexts, the other calls and the files as they were.
C12_FailuresAreFailureResults ==
  [][/\ (ret'.returned /\ ret'.outcome \in FailureOutcomes) =>
          /\ ret'.isError
          /\ ret'.step # "call" => calls'[1].pc = "idle"
     /\ ~ret'.returned => calls'[1].pc \in {"fetch", "access", "save", "send"}
     /\ ret'.tool \in UnknownNames =>
          ret'.returned /\ ret'.outcome = "UnknownTool" /\ Held' = Held]_vars

\* the model the documentation gives each argument of set_model
DocumentedModel(m) ==
  IF m = "pro" THEN "gemini-3-pro-image-preview" ELSE "gemini-2.5-flash-image"

\* C16: set_model is a tool of the server: a call to it succeeds, and the
\* backend invocation of the generate, edit or chat call that follows it uses
\* the model the call named.
C16_SetModelSwitches ==
  [][/\ ret'.tool = "set_model" => ret'.outcome = "ok" /\ ~ret'.isError
     /\ (ret.tool = "set_model" /\ ret'.invoked) =>
          ret'.model = DocumentedModel(ret.arg)]_vars

\* a file that can be read: it is there and is no directory
Readable(p) == p \in DOMAIN files /\ files[p] # Dir

\* reference imgRef of a call of the tool on the context does not resolve:
\* generate reads the path as given; chat and edit take an image of the
\* history when the reference names one, else the path when something is
\* there, else the file of that name in the default directory
FailsToResolve(tool, context, imgRef) ==
  IF tool = "gemini_generate_image"
  THEN ~Readable(ResolvedImagePath(imgRef))
  ELSE /\ GetImageFromHistory(context, imgRef) = NullEntry
       /\ IF ResolvedImagePath(imgRef) \in DOMAIN files
          THEN ~Readable(ResolvedImagePath(imgRef))
          ELSE ~Readable(AlternativePath(imgRef))

\* the references of a call in flight that do not resolve, in their order
FailedReferences(call) ==
  SelectSeq(call.reference_images,
            LAMBDA imgRef : FailsToResolve(call.tool, heap[call.ctx], imgRef))

\* the paths a list of warnings names
WarnedPaths(warnings) == [i \in 1..Len(warnings) |-> warnings[i].path]

\* C13: in generate and edit a reference image that does not resolve is not
\* fatal: the step that fails to read it leaves the call in flight; the backend
\* is invoked with one image part for each reference that did resolve, next to
\* the other parts; and when the image is saved the result is a success that
\* warns of each failed reference once, in order, and the image is added to
\* the history.
C13_ReferenceFailuresWarn ==
  [][/\ (ret'.step = "reference" /\ ret'.tool \in ImageTools) =>
          /\ ~ret'.returned
          /\ calls'[1].pc \in {"refs", "fetch"}
     /\ (ret'.invoked /\ ret'.tool \in ImageTools) =>
          LET call == calls'[1]
              others == IF call.tool = "gemini_edit_image" THEN 2
                        ELSE IF call.use_image_history
                        THEN 1 + Len(SliceLast(heap'[call.ctx].imageHistory,
                                               MAX_REFERENCE_IMAGES))
                        ELSE 1
          IN /\ Len(ret'.parts) =
                  Len(call.reference_images) - Len(FailedReferences(call)) + others
             /\ WarnedPaths(call.failed) = FailedReferences(call)
     /\ (ret'.step = "save" /\ ret'.outcome = "ok" /\ ret'.tool \in ImageTools) =>
          /\ ~ret'.isError
          /\ WarnedPaths(ret'.warnings) = FailedReferences(calls[1])
          /\ ret'.added # NullEntry
          /\ conversations[ret'.key] = calls[1].ctx =>
               LET h == heap'[calls[1].ctx].imageHistory
               IN Len(h) > 0 /\ h[Len(h)] = ret'.added]_vars

\* an edit with two references that failed and two that resolved is saved
C13_Witness ==
  /\ ret.step = "save" /\ ret.outcome = "ok" /\ ret.tool = "gemini_edit_image"
  /\ Len(ret.warnings) = 2
  /\ ret.added # NullEntry

\* C14: in chat an image reference that does not resolve is collected and
\* left out of the parts: the step that fails to read it leaves the call in
\* flight; the backend is invoked with the message followed by one image part
\* for each reference that did resolve, and that is the user turn of the
\* transcript; the successful result warns of each failed reference.
C14_ChatOmitsFailedImages ==
  [][/\ (ret'.step = "reference" /\ ret'.tool = "gemini_chat") =>
          /\ ~ret'.returned
          /\ calls'[1].pc \in {"refs", "send"}
     /\ (ret'.invoked /\ ret'.tool = "gemini_chat") =>
          LET call == calls'[1]
              history == heap'[call.ctx].history
          IN /\ call.pc = "send"
             /\ ret'.parts[1] = TextPart(<<call.prompt>>)
             /\ Len(ret'.parts) =
                  1 + Len(call.reference_images) - Len(FailedReferences(call))
             /\ \A i \in 2..Len(ret'.parts) :
                  ret'.parts[i].kind = "inlineData" /\ ret'.parts[i].data # Null
             /\ history[Len(history)] = [role |-> "user", parts |-> ret'.parts]
             /\ WarnedPaths(call.failed) = FailedReferences(call)
     /\ (ret'.step = "response" /\ ret'.tool = "gemini_chat" /\ ret'.outcome = "ok") =>
          /\ ~ret'.isError
          /\ WarnedPaths(ret'.warnings) = FailedReferences(calls[1])]_vars

\* a chat with four images, two of which failed, has been answered
C14_Witness ==
  /\ ret.step = "response" /\ ret.tool = "gemini_chat" /\ ret.outcome = "ok"
  /\ Len(ret.warnings) = 2
  /\ Len(ret.parts) = 3

\* the requested output path, resolved against the working directory
Requested(output_path) ==
  IF IsAbsolute(output_path) THEN output_path ELSE JoinPath(Cwd, output_path)

\* p is q with an extension taken off its end: a dot followed by at least one
\* character, none of them a dot or a slash
IsWithoutExtension(p, q) ==
  /\ Len(q) >= Len(p) + 2
  /\ SubSeq(q, 1, Len(p)) = p
  /\ q[Len(p) + 1] = "."
  /\ \A i \in (Len(p) + 2)..Len(q) : q[i] \notin {".", "/"}

\* a save to a requested output path has just succeeded
SavedAsRequested ==
  /\ ret'.step = "save" /\ ret'.outcome = "ok"
  /\ Len(calls[1].output_path) > 0

\* C15 as stated: the final path is the requested path, resolved against the
\* working directory, with its extension (if it has one) taken off and .png
\* put in its place; it always ends in ".png".
C15_AlwaysEndsInPng ==
  [][SavedAsRequested =>
       LET abs == Requested(calls[1].output_path)
       IN /\ EndsWith(ret'.wrote, PngExt)
          /\ \/ ret'.wrote = abs \o PngExt
             \/ \E stem \in {SubSeq(abs, 1, n) : n \in 0..Len(abs)} :
                  IsWithoutExtension(stem, abs) /\ ret'.wrote = stem \o PngExt]_vars

\* C15, amended: a resolved path that ends in .png in any mix of upper and
\* lower case is the final path as it is; any other has its extension, when
\* it ends in one, taken off and ".png" put at its end, and a path that ends
\* in no extension gets ".png" appended.  The file is written there.
C15_PngUnlessAlreadyPng ==
  [][SavedAsRequested =>
       LET abs == Requested(calls[1].output_path)
           stems == {SubSeq(abs, 1, n) : n \in 0..Len(abs)}
       IN /\ EndsWith(ToLowerCase(ret'.wrote), PngExt)
          /\ ret'.wrote \in DOMAIN files' /\ files'[ret'.wrote] = calls[1].imageData
          /\ EndsWith(ToLowerCase(abs), PngExt) => ret'.wrote = abs
          /\ ~EndsWith(ToLowerCase(abs), PngExt) =>
               IF \E stem \in stems : IsWithoutExtension(stem, abs)
               THEN \E stem \in stems :
                      IsWithoutExtension(stem, abs) /\ ret'.wrote = stem \o PngExt
               ELSE ret'.wrote = abs \o PngExt]_vars

\* out.jpg, a relative path, has been saved as out.png in the working directory
C15_Witness ==
  /\ ret.step = "save" /\ ret.outcome = "ok"
  /\ ret.requested = <<"o", "u", "t", ".", "j", "p", "g">>
  /\ ret.wrote = JoinPath(Cwd, OutPng)
  /\ JoinPath(Cwd, OutPng) \in DOMAIN files
  /\ JoinPath(Cwd, <<"o", "u", "t", ".", "j", "p", "g">>) \notin DOMAIN files

\* what get_image_history has just reported agrees with the history of the
\* conversation id as it is
ListingMatchesHistory ==
  LET context == SessionView(ret.key)
      h == context.imageHistory
      listing == ret.listing
  IN IF Len(h) = 0
     THEN ret.outcome = "empty" /\ listing = <<>>
     ELSE /\ ret.outcome = "listed"
          /\ Len(listing) = Len(h)
          /\ \A i \in 1..Len(listing) :
               /\ listing[i].index = i - 1
               /\ listing[i].reference = HistoryPrefix \o NumToStr(listing[i].index)
               /\ GetImageFromHistory(context, listing[i].reference) = h[i]
               /\ listing[i].id = h[i].id
               /\ listing[i].filePath = h[i].filePath
               /\ listing[i].prompt = h[i].prompt
               /\ listing[i].type = h[i].type
          /\ \A i \in 1..(Len(listing) - 1) : listing[i].id < listing[i + 1].id
          /\ GetImageFromHistory(context, LastRef).id = listing[Len(listing)].id

\* C17: get_image_history lists the images of the history oldest first, each
\* with its zero-based index and the reference "history:<index>"; that
\* reference, looked up in the same state, is the image listed, and the last
\* image listed is what "last" finds.  With no context or an empty history it
\* reports that the history is empty.  It changes nothing in either case.
C17_ListingResolves ==
  [][ret'.tool = "get_image_history" =>
       /\ ret'.returned /\ ~ret'.isError
       /\ ListingMatchesHistory'
       /\ Held' = Held
       /\ now' = now]_vars

\* a full history whose oldest images are gone has been listed
C17_Witness ==
  /\ ret.tool = "get_image_history"
  /\ ret.outcome = "listed"
  /\ Len(ret.listing) = MAX_IMAGE_HISTORY
  /\ ret.listing[1].id = 3
  /\ ret.listing[10].reference = HistoryRef(<<"9">>)

\* the default ratio conversation id k has: null when it has no context
DefaultRatio(k) == SessionView(k).aspectRatio

\* C18: the default ratio of a conversation starts unset and is set only by
\* set_aspect_ratio on that conversation id: a context is created with
\* aspectRatio null; the aspectRatio of a context changes only in a successful
\* set_aspect_ratio on the id that holds it, to the ratio given; gemini_chat,
\* gemini_generate_image, gemini_edit_image and get_image_history leave the
\* default of every id as it was, an explicit aspect_ratio included.  (The
\* only other way a default goes is clear_conversation, which removes the
\* context and the default with it.)
C18_DefaultRatioOnlySet ==
  [][/\ \A o \in DOMAIN heap' \ DOMAIN heap :
          \/ heap'[o].aspectRatio = Null
          \/ /\ ret'.tool = "set_aspect_ratio" /\ ret'.outcome = "ok"
             /\ conversations'[ret'.key] = o
             /\ heap'[o].aspectRatio = ret'.arg
     /\ \A o \in DOMAIN heap' \cap DOMAIN heap :
          heap'[o].aspectRatio # heap[o].aspectRatio =>
            /\ ret'.tool = "set_aspect_ratio" /\ ret'.outcome = "ok"
            /\ conversations[ret'.key] = o
            /\ heap'[o].aspectRatio = ret'.arg
     /\ \A k \in AllKeys :
          DefaultRatio(k)' # DefaultRatio(k) =>
            \/ /\ ret'.tool = "set_aspect_ratio" /\ ret'.key = k
               /\ ret'.outcome = "ok" /\ DefaultRatio(k)' = ret'.arg
            \/ /\ ret'.tool = "clear_conversation" /\ ret'.key = k
               /\ conversations'[k] = NoObj
     /\ ret'.tool \in ImageTools \cup {"gemini_chat", "get_image_history"} =>
          \A k \in AllKeys : DefaultRatio(k)' = DefaultRatio(k)]_vars

\* a generate with an explicit ratio has gone to the backend with that ratio
\* on a conversation whose default is another ratio, and the default is still
\* that one
C18_Witness ==
  /\ ret.tool = "gemini_generate_image" /\ ret.invoked
  /\ ret.arg = "16:9" /\ ret.ratio = "16:9"
  /\ DefaultRatio("default") = "1:1"

\* the images and the turns a context holds were put there by calls on id k
OwnedBy(context, k) ==
  /\ \A i \in 1..Len(context.imageHistory) : context.imageHistory[i].prompt = k
  /\ \A i \in 1..Len(context.history) :
       context.history[i].role = "user" =>
         context.history[i].parts[1] = TextPart(<<k>>)

\* C19: conversation ids are independent.  A step of an operation on id A
\* leaves the context of every other id B, and with it B's transcript, image
\* history and default ratio, exactly as it was; two ids never hold the same
\* context, and every image and every user turn a context holds comes from a
\* call on its own id; "last" in an edit on A finds the last image of A's
\* history, and nothing when A has none, whatever the other ids hold.
C19_SessionsIndependent ==
  [][/\ ret'.key \in AllKeys
     /\ \A B \in AllKeys \ {ret'.key} :
          /\ conversations'[B] = conversations[B]
          /\ SessionView(B)' = SessionView(B)
     /\ \A A \in AllKeys, B \in AllKeys :
          (A # B /\ conversations'[A] # NoObj) => conversations'[A] # conversations'[B]
     /\ \A A \in AllKeys : OwnedBy(SessionView(A)', A)
     /\ (ret'.tool = "gemini_edit_image" /\ ret'.step = "start"
         /\ ret'.outcome \notin RatioFailures) =>
          LET h == SessionView(ret'.key).imageHistory
          IN ret'.found = IF Len(h) = 0 THEN NullEntry ELSE h[Len(h)]]_vars

\* an edit of "last" on an id without images finds nothing while the other id
\* has an image, a transcript and a default ratio
C19_Witness ==
  /\ ret.tool = "gemini_edit_image" /\ ret.step = "start" /\ ret.key = "s"
  /\ ret.found = NullEntry
  /\ Len(SessionView("default").imageHistory) = 1
  /\ Len(SessionView("default").history) = 2
  /\ SessionView("default").aspectRatio = "1:1"
  /\ SessionView("s").aspectRatio = Null

\* a save of a call that named no output path has just succeeded
SavedByDefault ==
  /\ ret'.step = "save" /\ ret'.outcome = "ok"
  /\ Len(calls[1].output_path) = 0

\* the file name of p without its directories and without its last extension
Stem(p) ==
  LET base == SubSeq(p, Max(Positions(p, "/") \cup {0}) + 1, Len(p))
  IN IF \E n \in 1..(Len(base) - 1) : IsWithoutExtension(SubSeq(base, 1, n), base)
     THEN SubSeq(base, 1, Max({n \in 1..(Len(base) - 1) :
                                 IsWithoutExtension(SubSeq(base, 1, n), base)}))
     ELSE base

\* the file is in the default directory, which is there, and is named
\* <name>_<epoch-millis>.png
InDefaultDirectory(path, name) ==
  /\ Dirname(path) = GeneratedDir
  /\ GeneratedDir \in DOMAIN files' /\ files'[GeneratedDir] = Dir
  /\ path \in DOMAIN files' /\ files'[path] = calls[1].imageData
  /\ \E digits \in {NumToStr(t) : t \in 0..(MaxClock + 1)} :
       /\ ParseInt(digits) = now
       /\ path = GeneratedDir \o <<"/">> \o name \o <<"_">> \o digits \o PngExt

Generated == <<"g", "e", "n", "e", "r", "a", "t", "e", "d">>
Edited == <<"_", "e", "d", "i", "t", "e", "d">>

ResolvedReferences(call) ==
  SelectSeq(call.reference_images,
            LAMBDA imgRef : ~FailsToResolve(call.tool, heap[call.ctx], imgRef))

\* the step sends the request of the tool to the backend
Sends(tool) == ret'.invoked /\ ret'.tool = tool

\* C21: the parts of a generate request are the reference images that
\* resolved, in the order given; then, only when use_image_history is set and
\* the history is not empty, the last min(3, length) images of the history,
\* oldest first; then the prompt as the last part, with the consistency
\* sentence after it exactly when history images went along.  With a default
\* ratio of 1:1, one image in the history, use_image_history and no
\* references, the request is that image and the prompt with the sentence,
\* at ratio 1:1.
C21_GenerateParts ==
  [][Sends("gemini_generate_image") =>
       LET call == calls'[1]
           refs == ResolvedReferences(call)
           h == heap[call.ctx].imageHistory
           n == IF call.use_image_history /\ Len(h) > 0
                THEN (IF Len(h) < 3 THEN Len(h) ELSE 3) ELSE 0
           parts == ret'.parts
       IN /\ Len(parts) = Len(refs) + n + 1
          /\ \A i \in 1..Len(refs) :
               parts[i] = InlineData("image/png", files[ResolvedImagePath(refs[i])])
          /\ \A j \in 1..n :
               parts[Len(refs) + j] =
                 InlineData(h[Len(h) - n + j].mimeType, h[Len(h) - n + j].base64Data)
          /\ parts[Len(parts)] =
               TextPart(IF n > 0 THEN <<call.prompt, ConsistencySuffix>>
                        ELSE <<call.prompt>>)
          /\ (/\ call.use_image_history /\ Len(h) = 1 /\ call.reference_images = <<>>
              /\ ret'.arg = Undefined /\ DefaultRatio("default") = "1:1") =>
               /\ parts = <<InlineData("image/png", Payloads[1]),
                            TextPart(<<call.prompt, ConsistencySuffix>>)>>
               /\ ret'.ratio = "1:1"]_vars

\* a generate with use_image_history on a history of four images, with three
\* references of which two resolve, has gone out with six parts: the user's
\* file, the file saved last, the three newest images, the prompt
C21_Witness ==
  /\ ret.invoked /\ ret.tool = "gemini_generate_image"
  /\ Len(heap[calls[1].ctx].imageHistory) = 4
  /\ Len(ret.parts) = 6
  /\ ret.parts[1].data = "user-bytes"
  /\ ret.parts[3].data = Payloads[2]
  /\ ret.parts[5].data = Payloads[4]
  /\ ret.parts[6] = TextPart(<<"p", ConsistencySuffix>>)
  /\ ret.ratio = "1:1"

\* what a reference of an edit or a chat that resolves contributes: the image
\* of the history it names, else the file at the path, else the file of that
\* name in the default directory
ReferencePart(context, imgRef) ==
  LET img == GetImageFromHistory(context, imgRef)
  IN IF img # NullEntry THEN InlineData(img.mimeType, img.base64Data)
     ELSE IF ResolvedImagePath(imgRef) \in DOMAIN files
     THEN InlineData("image/png", files[ResolvedImagePath(imgRef)])
     ELSE InlineData("image/png", files[AlternativePath(imgRef)])

\* the first ten of the references the caller supplied that resolve
FirstTenResolved(tool, context, supplied) ==
  SelectSeq(SubSeq(supplied, 1, IF Len(supplied) < 10 THEN Len(supplied) ELSE 10),
            LAMBDA imgRef : ~FailsToResolve(tool, context, imgRef))

\* C22: the parts of an edit request are the reference images that resolved
\* among the first ten supplied, in order; then the editing instruction,
\* which contains the edit prompt as given; then the image that is edited.
\* That image is one part, the last, whatever the references are.
C22_EditParts ==
  [][Sends("gemini_edit_image") =>
       LET call == calls'[1]
           context == heap[call.ctx]
           refs == FirstTenResolved(call.tool, context, call.supplied)
           parts == ret'.parts
           subject == IF GetImageFromHistory(context, call.image_path) # NullEntry
                      THEN GetImageFromHistory(context, call.image_path).base64Data
                      ELSE IF ResolvedImagePath(call.image_path) \in DOMAIN files
                      THEN files[ResolvedImagePath(call.image_path)]
                      ELSE files[AlternativePath(call.image_path)]
       IN /\ Len(parts) = Len(refs) + 2
          /\ \A i \in 1..Len(refs) : parts[i] = ReferencePart(context, refs[i])
          /\ parts[Len(refs) + 1].kind = "text"
          /\ \E i \in 1..Len(parts[Len(refs) + 1].text) :
               parts[Len(refs) + 1].text[i] = call.prompt
          /\ parts[Len(refs) + 1].text = <<EditPrefix, call.prompt, EditSuffix>>
          /\ parts[Len(parts)] = InlineData("image/png", subject)
          /\ Cardinality({i \in 1..Len(parts) : parts[i].kind = "text"}) = 1]_vars

\* an edit of "last" with eleven references has gone out with eleven parts:
\* the nine of the first ten references that resolve, the instruction, the
\* image edited
C22_Witness ==
  /\ ret.invoked /\ ret.tool = "gemini_edit_image"
  /\ Len(calls[1].supplied) = 11
  /\ calls[1].image_path = LastRef
  /\ Len(heap[calls[1].ctx].imageHistory) = 2
  /\ Len(ret.parts) = 11
  /\ ret.parts[1].data = Payloads[1]
  /\ ret.parts[2].data = Payloads[2]
  /\ ret.parts[11].data = Payloads[2]

\* the chat request that has just gone out: the images that resolved among the
\* first ten supplied, in order, and the transcript as it was before this turn
\* replayed as context; the new turn is added to the transcript
ChatImagesAndReplay(imageParts) ==
  LET call == calls'[1]
      prior == SessionView("default").history
      images == FirstTenResolved(call.tool, heap'[call.ctx], call.supplied)
  IN /\ Len(imageParts) = Len(images)
     /\ \A i \in 1..Len(images) :
          imageParts[i] = ReferencePart(heap'[call.ctx], images[i])
     /\ ret'.replayed = prior
     /\ heap'[call.ctx].history =
          Append(prior, [role |-> "user", parts |-> ret'.parts])

\* C23 as stated: the new turn is the resolved images, in the order given and
\* from the first ten references only, followed by the message as its last
\* part; the transcript so far is replayed ahead of it.
C23_MessageLast ==
  [][Sends("gemini_chat") =>
       /\ ret'.parts[Len(ret'.parts)] = TextPart(<<calls'[1].prompt>>)
       /\ ChatImagesAndReplay(SubSeq(ret'.parts, 1, Len(ret'.parts) - 1))]_vars

\* C23, amended: the message is the first part of the new turn and the
\* resolved images follow it.
C23_MessageFirst ==
  [][Sends("gemini_chat") =>
       /\ ret'.parts[1] = TextPart(<<calls'[1].prompt>>)
       /\ ChatImagesAndReplay(SubSeq(ret'.parts, 2, Len(ret'.parts)))]_vars

\* a chat with eleven images has gone out on a conversation with one image and
\* a transcript of two turns: the message, then the nine images that resolve
\* among the first ten
C23_Witness ==
  /\ ret.invoked /\ ret.tool = "gemini_chat"
  /\ Len(calls[1].supplied) = 11
  /\ Len(ret.replayed) = 2
  /\ Len(ret.parts) = 10
  /\ ret.parts[1] = TextPart(<<"m">>)
  /\ ret.parts[2].data = Payloads[1]
  /\ ret.parts[4].data = "user-bytes"

\* the resolution of a reference string: the image of the history it names,
\* found without a look at the files; else the file at the path, made absolute
\* against the working directory; else the file of the same base name in the
\* default directory; else nothing.  pathOnly leaves out the first and the
\* third.
Resolution(pathOnly, context, imgRef) ==
  LET img == GetImageFromHistory(context, imgRef)
      first == ResolvedImagePath(imgRef)
      second == AlternativePath(imgRef)
  IN IF ~pathOnly /\ img # NullEntry
     THEN [found |-> TRUE, exists |-> TRUE, fromHistory |-> TRUE, data |-> img.base64Data]
     ELSE IF first \in DOMAIN files
     THEN [found |-> files[first] # Dir, exists |-> TRUE, fromHistory |-> FALSE,
           data |-> files[first]]
     ELSE IF ~pathOnly /\ second \in DOMAIN files
     THEN [found |-> files[second] # Dir, exists |-> TRUE, fromHistory |-> FALSE,
           data |-> files[second]]
     ELSE [found |-> FALSE, exists |-> FALSE, fromHistory |-> FALSE, data |-> Null]

\* the image parts among the parts of the request that has gone out
ImageParts(call, parts) ==
  IF call.tool = "gemini_chat" THEN SubSeq(parts, 2, Len(parts))
  ELSE IF call.tool = "gemini_edit_image" THEN SubSeq(parts, 1, Len(parts) - 2)
  ELSE SubSeq(parts, 1, Len(parts) - 1)

\* every reference of the step is resolved as Resolution says, generate's
\* reference images by path only when generateByPath
ResolvedAsSpecified(generateByPath) ==
  /\ ret'.invoked =>
       LET call == calls'[1]
           context == heap'[call.ctx]
           pathOnly == generateByPath /\ call.tool = "gemini_generate_image"
           found == SelectSeq(call.reference_images,
                      LAMBDA r : Resolution(pathOnly, context, r).found)
           sent == ImageParts(call, ret'.parts)
       IN /\ Len(sent) = Len(found)
          /\ \A i \in 1..Len(found) :
               sent[i].data = Resolution(pathOnly, context, found[i]).data
          /\ WarnedPaths(call.failed) =
               SelectSeq(call.reference_images,
                         LAMBDA r : ~Resolution(pathOnly, context, r).found)
  /\ ret'.step = "reference" =>
       ~Resolution(generateByPath /\ ret'.tool = "gemini_generate_image",
                   heap[calls[1].ctx], ret'.ref).fromHistory
  /\ (ret'.tool = "gemini_edit_image" /\ ret'.step = "start"
      /\ ret'.outcome \notin RatioFailures) =>
       LET subject == Resolution(FALSE, heap'[calls'[1].ctx], ret'.ref)
       IN IF subject.fromHistory
          THEN calls'[1].pc # "access" /\ calls'[1].imageBase64 = subject.data
          ELSE calls'[1].pc = "access"
  /\ (ret'.tool = "gemini_edit_image" /\ ret'.step = "access") =>
       LET subject == Resolution(FALSE, heap[calls[1].ctx], calls[1].image_path)
       IN /\ subject.found => ~ret'.returned /\ calls'[1].imageBase64 = subject.data
          /\ ~subject.exists =>
               /\ ret'.returned /\ ret'.outcome = "NotFound"
               /\ calls'[1].invocations = 0

\* C24 as stated: every reference string of every operation is resolved by
\* the one algorithm.
C24_OneAlgorithm == [][ResolvedAsSpecified(FALSE)]_vars

\* C24, amended: the images of a chat, the reference images of an edit and
\* the subject of an edit are resolved by that algorithm; a reference image
\* of generate is a path and nothing else: no history lookup, no second look
\* in the default directory.
C24_GenerateByPath == [][ResolvedAsSpecified(TRUE)]_vars

\* a generate whose four references are a missing file, "last", a file the
\* default directory has and a directory has gone out with its prompt alone,
\* on a conversation that has an image
C24_Witness ==
  /\ ret.invoked /\ ret.tool = "gemini_generate_image"
  /\ Len(calls[1].reference_images) = 4
  /\ Len(heap[calls[1].ctx].imageHistory) = 1
  /\ Len(ret.parts) = 1
  /\ Len(calls[1].failed) = 4

\* every part of every chunk of a response, in the order of arrival
RECURSIVE AllParts(_)
AllParts(chunks) ==
  IF Len(chunks) = 0 THEN <<>> ELSE Head(chunks).parts \o AllParts(Tail(chunks))

\* the text fragments of a response, in the order of arrival
Fragments(chunks) ==
  LET HasText(part) == part.text # <<>>
      texts == SelectSeq(AllParts(chunks), HasText)
  IN [i \in 1..Len(texts) |-> texts[i].text]

\* the image payloads of a response, in the order of arrival
ImagePayloads(chunks) ==
  LET HasData(part) == part.data # ""
      images == SelectSeq(AllParts(chunks), HasData)
  IN [i \in 1..Len(images) |-> images[i].data]

\* a response whose body is an array of elements whose parts can be read
IsChunkArray(response) ==
  /\ response.ok
  /\ response.json = "array"
  /\ \A i \in 1..Len(response.chunks) : response.chunks[i].shape # "badParts"

\* the label a failed generate or edit starts its text with
FailedLabel(tool) ==
  IF tool = "gemini_generate_image" THEN "Image generation failed."
  ELSE "Image editing failed."

\* C25: the adapter folds the chunks of a response into one result: the text is
\* the concatenation of the text fragments of all chunks in the order of
\* arrival, the image is the payload of the last part that carries one, earlier
\* payloads are dropped, and the text is there whether or not a chunk carries an
\* image: it is in the call that goes on to save, in the result of the save,
\* and in the result that reports that no image came
C25_FoldChunks ==
  [][/\ (ret'.step = "response" /\ IsChunkArray(ret'.response)) =>
          LET text == Join(Fragments(ret'.response.chunks))
              images == ImagePayloads(ret'.response.chunks)
          IN IF Len(images) > 0
             THEN /\ ~ret'.returned
                  /\ calls'[1].pc = "save"
                  /\ calls'[1].imageData = images[Len(images)]
                  /\ calls'[1].textResponse = text
                  /\ ret'.text = text
             ELSE /\ ret'.returned
                  /\ ret'.text = <<FailedLabel(ret'.tool)>> \o
                        (IF Len(text) > 0 THEN <<"Model response: ">> \o text
                         ELSE <<"No image returned from model">>)
     /\ (ret'.step = "save" /\ ret'.outcome = "ok") =>
          /\ ret'.text = calls[1].textResponse
          /\ ret'.added.base64Data = calls[1].imageData
          /\ files'[ret'.wrote] = calls[1].imageData
    ]_vars

\* a response of two chunks, each with a text and an image, was folded: the
\* call holds the second image and both texts
C25_Witness ==
  /\ ret.step = "response"
  /\ ret.response.chunks = <<Chunk(<<ResponseText(<<"a">>), ResponseImage("X")>>),
                             Chunk(<<ResponseImage("Y"), ResponseText(<<"b">>)>>)>>
  /\ calls[1].pc = "save"
  /\ calls[1].imageData = "Y"
  /\ calls[1].textResponse = <<"a", "b">>

\* the image history of a conversation; none when the id has no context
ImageHistoryOf(k) ==
  IF conversations[k] = NoObj THEN <<>> ELSE heap[conversations[k]].imageHistory

\* C26: a generate or edit whose response aggregates to no image and no error
\* returns the failure "Image generation/editing failed." marked as an error,
\* with the text of the model when there is one; it writes no file and the
\* history of no conversation changes
C26_NoImageIsSoftFailure ==
  [][(/\ ret'.step = "response"
      /\ IsChunkArray(ret'.response)
      /\ Len(ImagePayloads(ret'.response.chunks)) = 0) =>
       LET text == Join(Fragments(ret'.response.chunks))
       IN /\ ret'.returned
          /\ ret'.outcome = "NoImage"
          /\ ret'.isError
          /\ ret'.text[1] = FailedLabel(calls[1].tool)
          /\ Len(text) > 0 => ret'.text = <<FailedLabel(calls[1].tool), "Model response: ">> \o text
          /\ Len(text) = 0 => ret'.text = <<FailedLabel(calls[1].tool), "No image returned from model">>
          /\ ret'.added = NullEntry
          /\ calls'[1] = IdleCall
          /\ files' = files
          /\ conversations' = conversations
          /\ heap' = heap
          /\ appended' = appended
    ]_vars

\* an edit of the last image got two chunks of text and no image: the result
\* is the failure with the text, and the history is the one image it was
C26_Witness ==
  /\ ret.step = "response"
  /\ ret.tool = "gemini_edit_image"
  /\ ret.response.chunks = <<Chunk(<<ResponseText(<<"a">>)>>), Chunk(<<ResponseText(<<"b">>)>>)>>
  /\ ret.outcome = "NoImage"
  /\ ret.isError
  /\ ret.text = <<"Image editing failed.", "Model response: ", "a", "b">>
  /\ Len(ImageHistoryOf("default")) = 1

\* a body that is a sequence of chunk objects
IsSequenceOfChunks(response) ==
  /\ response.json = "array"
  /\ \A i \in 1..Len(response.chunks) : response.chunks[i].shape = "chunk"

\* C27: every response body that is not a sequence of chunk objects gives the
\* parsing error, never the failure of no image and never a saved image; no
\* file is written and no history changes
C27_MalformedIsParseError ==
  [][(/\ ret'.step = "response"
      /\ ret'.response.ok
      /\ ~IsSequenceOfChunks(ret'.response)) =>
       /\ ret'.returned
       /\ ret'.outcome = "ParseError"
       /\ files' = files
       /\ heap' = heap
       /\ appended' = appended
    ]_vars

\* the text a failed request is reported with: the status and the body
TransportDiagnostic(response) ==
  <<"API request failed: ", response.status, " - ">> \o response.text

\* C28: a generate or edit that the backend answers with a status that is not
\* 2xx ends with a failure result that carries the status and the text of the
\* backend; no file is written and the history of the conversation is as it
\* was
C28_TransportErrorAborts ==
  [][(ret'.step = "response" /\ ~ret'.response.ok) =>
       /\ ret'.returned
       /\ ret'.isError
       /\ ret'.outcome = "TransportError"
       /\ SubSeq(ret'.text, 2, Len(ret'.text)) = TransportDiagnostic(ret'.response)
       /\ calls'[1] = IdleCall
       /\ files' = files
       /\ conversations' = conversations
       /\ heap' = heap
       /\ appended' = appended
    ]_vars

\* the tools that never reach the backend
LocalTools == {"set_aspect_ratio", "get_image_history", "clear_conversation"}

\* C29: the backend is not asked again: a step invokes it only for a chat,
\* generate or edit call that has not invoked it yet, so a call makes at most
\* one invocation; when the answer comes, good or bad, the call goes on to save
\* or ends, without another invocation; set_aspect_ratio, get_image_history and
\* clear_conversation invoke nothing
C29_NoRetry ==
  [][/\ \A c \in DOMAIN calls :
          /\ calls'[c].invocations <= 1
          /\ calls'[c].invocations # calls[c].invocations =>
               \/ calls[c].invocations = 0 /\ ret'.invoked
               \/ calls'[c] = IdleCall
          /\ (calls[c].pc \in {"fetch", "send"} /\ calls'[c] # calls[c]) =>
               /\ ~ret'.invoked
               /\ calls'[c].pc \in {"save", "idle"}
               /\ ret'.returned <=> calls'[c] = IdleCall
          /\ (calls[c].pc = "save" /\ calls'[c] # calls[c]) =>
               ~ret'.invoked /\ calls'[c] = IdleCall
     /\ ret'.invoked =>
          /\ ret'.tool \in {"gemini_chat", "gemini_generate_image", "gemini_edit_image"}
          /\ \E c \in DOMAIN calls :
               calls[c].invocations = 0 /\ calls'[c].invocations = 1
     /\ ret'.tool \in LocalTools =>
          /\ ~ret'.invoked
          /\ \A c \in DOMAIN calls : calls'[c].invocations = calls[c].invocations
    ]_vars

\* a generate call has ended on a request that failed, and nothing is in
\* flight: the one invocation was not repeated
C29_Witness ==
  /\ ret.step = "response"
  /\ ret.tool = "gemini_generate_image"
  /\ ret.outcome = "TransportError"
  /\ ret.returned /\ ~ret.invoked
  /\ \A c \in DOMAIN calls : calls[c] = IdleCall

\* the image history of a context object changes in the step
HistoryChanges(o) ==
  IF o \in DOMAIN heap THEN heap'[o].imageHistory # heap[o].imageHistory
  ELSE Len(heap'[o].imageHistory) > 0

\* C30: generate and edit go response, file, record: the call comes to the save
\* only from a response that brought an image; a history changes only in the
\* save that wrote the file, by the one record of that call, whose filePath is
\* the path written and whose payload is what the file holds; a call that ends
\* on a failed request, an unreadable body, a missing image or a failed write
\* leaves every history as it was. The code has no cancellation: a request
\* that does not complete is a fetch that rejects.
C30_ResponseFileRecord ==
  [][/\ \A c \in DOMAIN calls :
          (calls'[c].pc = "save" /\ calls[c].pc # "save") =>
            /\ calls[c].pc = "fetch"
            /\ ret'.step = "response"
            /\ Truthy(calls'[c].imageData)
     /\ \A o \in DOMAIN heap' :
          HistoryChanges(o) =>
            /\ ret'.step = "save" /\ ret'.outcome = "ok" /\ ret'.returned
            /\ \E c \in DOMAIN calls :
                 /\ calls[c].pc = "save" /\ calls[c].ctx = o
                 /\ calls'[c] = IdleCall
                 /\ ret'.wrote = FinalPath(calls[c], now)
                 /\ files'[ret'.wrote] = calls[c].imageData
                 /\ ret'.added.base64Data = calls[c].imageData
            /\ ret'.wrote \in DOMAIN files'
            /\ ret'.added.filePath = ret'.wrote
            /\ appended'[o] = appended[o] + 1
            /\ heap'[o].imageHistory[Len(heap'[o].imageHistory)] = ret'.added
            /\ \A p \in (DOMAIN heap') \ {o} : ~HistoryChanges(p)
     /\ (ret'.tool \in ImageTools /\ ret'.returned /\ ret'.outcome # "ok") =>
          /\ \A o \in DOMAIN heap' : ~HistoryChanges(o) /\ appended'[o] = appended[o]
          /\ ret'.added = NullEntry /\ ret'.wrote = <<>>
     \* the record goes to the context the call started with; after a clear
     \* nothing else refers to that context, and it is gone with the call
     /\ (ret'.step = "save" /\ ret'.outcome = "ok") =>
          \E c \in DOMAIN calls :
            /\ calls[c].pc = "save" /\ calls'[c] = IdleCall
            /\ calls[c].ctx \in DOMAIN heap' => HistoryChanges(calls[c].ctx)
    ]_vars

\* an edit has written its file, and the history of the conversation is the
\* one record of that file
C30_Witness ==
  /\ ret.step = "save" /\ ret.outcome = "ok"
  /\ ret.tool = "gemini_edit_image"
  /\ ret.wrote \in DOMAIN files
  /\ files[ret.wrote] = ret.added.base64Data
  /\ ImageHistoryOf("default") = <<ret.added>>
  /\ ret.added.filePath = ret.wrote

\* a is the beginning of b
IsPrefix(a, b) == Len(a) <= Len(b) /\ SubSeq(b, 1, Len(a)) = a

\* the transcript of a conversation; none when the id has no context
TranscriptOf(k) ==
  IF conversations[k] = NoObj THEN <<>> ELSE heap[conversations[k]].history

\* the transcript of a context object before and after the step; a context
\* made in the step had none
HistoryBefore(o) == IF o \in DOMAIN heap THEN heap[o].history ELSE <<>>

\* C31: the transcript only grows: the history of a context is never
\* shortened or rewritten, and the transcript of a conversation id stays a
\* beginning of what it becomes except when clear_conversation empties it; a
\* chat appends the user turn, with the message and the images that resolved,
\* when it sends, and the model turn with the text when the answer comes, so a
\* chat that succeeds has added exactly these two turns; no other step adds a
\* turn
C31_TranscriptAppendOnly ==
  [][/\ \A o \in DOMAIN heap' : IsPrefix(HistoryBefore(o), heap'[o].history)
     /\ \A k \in AllKeys :
          \/ IsPrefix(TranscriptOf(k), TranscriptOf(k)')
          \/ /\ ret'.tool = "clear_conversation" /\ ret'.key = k
             /\ TranscriptOf(k)' = <<>>
     /\ \A o \in DOMAIN heap' :
          heap'[o].history # HistoryBefore(o) =>
            /\ ret'.tool = "gemini_chat"
            /\ \E c \in DOMAIN calls :
                 \/ /\ ret'.invoked
                    /\ calls[c].pc # "send" /\ calls'[c].pc = "send" /\ calls'[c].ctx = o
                    /\ heap'[o].history =
                         Append(HistoryBefore(o), [role |-> "user", parts |-> ret'.parts])
                 \/ /\ ret'.step = "response" /\ ret'.outcome = "ok"
                    /\ calls[c].pc = "send" /\ calls'[c] = IdleCall /\ calls[c].ctx = o
                    /\ heap'[o].history =
                         Append(heap[o].history,
                                [role |-> "model", parts |-> <<TextPart(ret'.text)>>])
                    /\ \E i \in 1..Len(heap[o].history) :
                         heap[o].history[i] = [role |-> "user", parts |-> calls[c].parts]
     /\ \A c \in DOMAIN calls :
          /\ (calls[c].pc # "send" /\ calls'[c].pc = "send") =>
               heap'[calls'[c].ctx].history # HistoryBefore(calls'[c].ctx)
          /\ (/\ calls[c].pc = "send" /\ calls'[c] = IdleCall /\ ret'.outcome = "ok"
              /\ calls[c].ctx \in DOMAIN heap') =>
               heap'[calls[c].ctx].history # heap[calls[c].ctx].history
    ]_vars

\* a second chat has succeeded: the transcript is the two turns of the first
\* chat, then the user turn with the image that resolved and the model turn
C31_Witness ==
  /\ ret.tool = "gemini_chat" /\ ret.step = "response" /\ ret.outcome = "ok"
  /\ Len(TranscriptOf("default")) = 4
  /\ Len(TranscriptOf("default")[3].parts) = 2
  /\ TranscriptOf("default")[3].role = "user"
  /\ TranscriptOf("default")[4] = [role |-> "model", parts |-> <<TextPart(<<"r">>)>>]

\* C32: whatever the aspect_ratio argument and whatever the conversation holds,
\* a request of generate or edit to the backend carries one of the ten ratios
C32_InvokedWithValidRatio ==
  [][(ret'.invoked /\ ret'.tool \in ImageTools) =>
       /\ ret'.ratio \in TenRatios
       /\ \A c \in DOMAIN calls : calls'[c].pc = "fetch" => calls'[c].ratio \in TenRatios
    ]_vars

\* a transcript of user turns each followed by a model turn
IsPaired(history) ==
  /\ Len(history) % 2 = 0
  /\ \A i \in 1..Len(history) :
       history[i].role = (IF i % 2 = 1 THEN "user" ELSE "model")

\* C33: a chat whose request fails leaves the transcript as it was before the
\* call, so when no chat is in flight the transcript of every conversation is
\* user turns each followed by its model turn
C33_FailedChatLeavesNoTurn ==
  (\A c \in DOMAIN calls : calls[c].tool # "gemini_chat") =>
    \A k \in AllKeys : IsPaired(TranscriptOf(k))

\* C34: with two chats of one conversation in flight the transcript stays
\* user turns each followed by the model turn that answers it: what a chat
\* replays to the backend holds no user turn without its answer, and the model
\* turn of a chat is added right after the user turn of that chat
C34_ChatsDoNotInterleave ==
  [][/\ (ret'.tool = "gemini_chat" /\ ret'.invoked) => IsPaired(ret'.replayed)
     /\ \A c \in DOMAIN calls :
          (/\ ret'.tool = "gemini_chat" /\ ret'.step = "response" /\ ret'.outcome = "ok"
           /\ calls[c].pc = "send" /\ calls'[c] = IdleCall) =>
            LET h == heap'[calls[c].ctx].history
            IN /\ h[Len(h)] = [role |-> "model", parts |-> <<TextPart(ret'.text)>>]
               /\ h[Len(h) - 1] = [role |-> "user", parts |-> calls[c].parts]
    ]_vars

\* C35: with two generate calls of one conversation in flight together,
\* each call that succeeds adds its one record at the end of the history, so
\* the records are in the order in which the calls completed; the records
\* that were there stay, in their order, but for the oldest when the history
\* was full; the record is not one that was there; the history never holds
\* more than MAX_IMAGE_HISTORY records
C35_ConcurrentSavesKeepHistory ==
  [][/\ \A k \in AllKeys : Len(ImageHistoryOf(k)') <= MAX_IMAGE_HISTORY
     /\ \A k \in AllKeys :
        (ret'.step = "save" /\ ret'.outcome = "ok" /\ ret'.key = k) =>
          LET old == ImageHistoryOf(k)
              new == ImageHistoryOf(k)'
              kept == IF Len(old) < MAX_IMAGE_HISTORY THEN old ELSE Tail(old)
          IN /\ new = Append(kept, ret'.added)
             /\ \A i \in 1..Len(old) : old[i] # ret'.added
             /\ Cardinality({i \in 1..Len(new) : new[i].id = ret'.added.id}) = 1
     /\ ~(ret'.step = "save" /\ ret'.outcome = "ok") =>
          \A k \in AllKeys : ImageHistoryOf(k)' = ImageHistoryOf(k)
    ]_vars

\* one call has saved while the other waits to save, on a history that was
\* full: its record is the last, after a record of the other call, and the
\* oldest record is gone
C35_Witness ==
  /\ ret.step = "save" /\ ret.outcome = "ok" /\ ret.added.prompt = "q"
  /\ calls[1].pc = "save"
  /\ Len(ImageHistoryOf("default")) = MAX_IMAGE_HISTORY
  /\ appended[conversations["default"]] > MAX_IMAGE_HISTORY
  /\ ImageHistoryOf("default")[MAX_IMAGE_HISTORY] = ret.added
  /\ ImageHistoryOf("default")[MAX_IMAGE_HISTORY - 1].prompt = "p"
  /\ ImageHistoryOf("default")[1].id > 1

\* C36: the file at the path of every record of every history holds the
\* payload of the record
C36_FileHoldsRecord ==
  \A k \in AllKeys :
    \A i \in 1..Len(ImageHistoryOf(k)) :
      LET record == ImageHistoryOf(k)[i]
      IN /\ record.filePath \in DOMAIN files
         /\ files[record.filePath] = record.base64Data

\* C37: a result of generate or edit that reports a failure is marked as an
\* error, and a result that is not marked as an error is that of a call that
\* wrote its file and added its record
C37_FailuresAreMarked ==
  [][(ret'.tool \in ImageTools /\ ret'.returned) =>
       /\ ret'.outcome # "ok" => ret'.isError
       /\ ~ret'.isError =>
            /\ ret'.outcome = "ok"
            /\ ret'.wrote \in DOMAIN files'
            /\ ret'.added # NullEntry
            /\ ret'.added.filePath = ret'.wrote
    ]_vars

\* C38: a tag history:i of a listing denotes the same record for as long as
\* the record is in the history: when a step leaves the record in the history,
\* the tag resolves to it after the step as before
C38_TagsAreStable ==
  [][\A k \in AllKeys :
       \A i \in 0..(Len(ImageHistoryOf(k)) - 1) :
         LET tag == HistoryRef(NumToStr(i))
             record == GetImageFromHistory(SessionView(k), tag)
         IN (\E j \in 1..Len(ImageHistoryOf(k)') : ImageHistoryOf(k)'[j] = record) =>
              GetImageFromHistory(SessionView(k), tag)' = record
    ]_vars

\* a context object before the step; one made in the step was a new context
ContextBefore(o) == IF o \in DOMAIN heap THEN heap[o] ELSE NewContext

\* the step is the save of a call that holds context o, and it succeeded
SavedInto(o) ==
  /\ ret'.step = "save" /\ ret'.outcome = "ok"
  /\ \E c \in DOMAIN calls :
       calls[c].pc = "save" /\ calls'[c] = IdleCall /\ calls[c].ctx = o

\* C39: each tool changes its own part of a context and nothing else: chat the
\* transcript; generate and edit the image history, by the one record of a
\* save that succeeded and not at all otherwise; set_aspect_ratio the default
\* ratio; get_image_history and the loading of reference images nothing. Only
\* the save of generate and edit writes files.
C39_Frame ==
  [][/\ \A o \in DOMAIN heap' :
          LET before == ContextBefore(o)
              after == heap'[o]
          IN /\ ret'.tool = "gemini_chat" =>
                  /\ after.imageHistory = before.imageHistory
                  /\ after.aspectRatio = before.aspectRatio
             /\ ret'.tool \in ImageTools =>
                  /\ after.history = before.history
                  /\ after.aspectRatio = before.aspectRatio
                  /\ IF SavedInto(o)
                     THEN /\ after.imageHistory # before.imageHistory
                          /\ after.imageHistory = AddImageToHistory(before, ret'.added).imageHistory
                     ELSE after.imageHistory = before.imageHistory
             /\ ret'.tool = "set_aspect_ratio" =>
                  /\ after.history = before.history
                  /\ after.imageHistory = before.imageHistory
                  /\ after.aspectRatio # before.aspectRatio =>
                       conversations'[ret'.key] = o /\ ret'.outcome = "ok"
             /\ ret'.tool = "get_image_history" => after = before
             /\ (ret'.step \in {"reference", "access"} /\ ~ret'.invoked) => after = before
     /\ files' # files => ret'.tool \in ImageTools /\ ret'.step = "save"
    ]_vars

\* a chat has been answered on a conversation that has a default ratio and an
\* image: the transcript has its two turns, the ratio and the image are there
C39_Witness ==
  /\ ret.tool = "gemini_chat" /\ ret.step = "response" /\ ret.outcome = "ok"
  /\ Len(TranscriptOf("default")) = 2
  /\ Len(ImageHistoryOf("default")) = 1
  /\ SessionView("default").aspectRatio = "1:1"

\* a call in flight whose context is no longer the one of its conversation id
IsDetached(c) ==
  calls[c].pc # "idle" /\ calls[c].ctx # conversations[calls[c].key]

\* C40: clear_conversation of an id detaches the calls in flight on it: after
\* the clear the id has no context and no call holds the context a later call
\* will make for it, and no step of a detached call, whenever it comes, changes
\* what any id shows: the turns and the record of the call are not there
C40_ClearDetachesCallsInFlight ==
  [][/\ ret'.tool = "clear_conversation" =>
          \A k \in AllKeys : ret'.key = k =>
            /\ conversations'[k] = NoObj
            /\ TranscriptOf(k)' = <<>> /\ ImageHistoryOf(k)' = <<>>
            /\ \A c \in DOMAIN calls :
                 (calls[c].pc # "idle" /\ calls[c].key = k) =>
                   calls'[c] = calls[c] /\ IsDetached(c)'
     /\ \A k \in AllKeys :
          (conversations'[k] # conversations[k] /\ conversations'[k] # NoObj) =>
            \A c \in DOMAIN calls : calls[c].pc # "idle" => calls[c].ctx # conversations'[k]
     /\ \A c \in DOMAIN calls :
          (IsDetached(c) /\ calls'[c] # calls[c]) =>
            /\ AllViews' = AllViews
            /\ calls'[c].pc # "idle" => IsDetached(c)'
    ]_vars

\* a generate that was in flight when its conversation was cleared has saved
\* its image after set_aspect_ratio made a new context for the id: the record
\* it added is not in the history of the id
C40_Witness ==
  /\ ret.step = "save" /\ ret.outcome = "ok" /\ ret.key = "default"
  /\ ret.added # NullEntry
  /\ conversations["default"] # NoObj
  /\ SessionView("default").aspectRatio = "1:1"
  /\ ImageHistoryOf("default") = <<>>

=============================================================================
